---- MODULE Spec2Model ----
(***************************************************************************)
(* Model of the modem ingestion pipeline of jeogo/ModemZTE:                *)
(*   src/src/sms/modem.py   (listing, decoding, process_message, delete)   *)
(*   src/src/utils/db.py    (message_exists, save_sms)                     *)
(* Strings are sequences of Unicode code points; byte strings are          *)
(* sequences of 0..255.                                                    *)
(***************************************************************************)
EXTENDS Integers, Sequences, FiniteSets, TLC

(***************************************************************************)
(* Bounds of the model.                                                    *)
(***************************************************************************)
\* number of messages that arrive on the device in one run, and so the
\* number of device slots in use
MaxArrivals == 2

(***************************************************************************)
(* Python string and bytes primitives used by the decoders.                *)
(***************************************************************************)
SetMin(S) == CHOOSE x \in S : \A y \in S : x <= y
SetMax(S) == CHOOSE x \in S : \A y \in S : x >= y

\* c in '0123456789ABCDEFabcdef'
IsHexChar(c) == c \in 48..57 \/ c \in 65..70 \/ c \in 97..102
HexVal(c) == IF c \in 48..57 THEN c - 48 ELSE IF c \in 65..70 THEN c - 55 ELSE c - 87
\* all(c in '0123456789ABCDEFabcdef' for c in s): true of the empty string
AllHex(s) == \A i \in 1..Len(s) : IsHexChar(s[i])

\* str.isspace() of one character
IsSpace(c) ==
    \/ c \in 9..13 \/ c \in 28..32 \/ c \in 8192..8202
    \/ c \in {133, 160, 5760, 8232, 8233, 8239, 8287, 12288}
\* str.strip()
Strip(s) ==
    LET keep == {i \in 1..Len(s) : ~IsSpace(s[i])}
    IN  IF keep = {} THEN <<>> ELSE SubSeq(s, SetMin(keep), SetMax(keep))
\* s.replace(ch, '') for a one-character ch
Without(s, ch) == SelectSeq(s, LAMBDA c : c /= ch)
\* str.isdigit() of one character (ASCII, Arabic-Indic and Extended Arabic-Indic digits)
IsDigit(c) == c \in 48..57 \/ c \in 1632..1641 \/ c \in 1776..1785
\* str.isprintable() of one character: false for the control, format, surrogate,
\* private-use and separator categories, space excepted
IsPrintableChar(c) ==
    /\ c >= 32
    /\ c \notin 127..160
    /\ c \notin {173, 1564, 1757, 1807, 5760, 6158, 12288, 65279}
    /\ c \notin 1536..1541
    /\ c \notin 8192..8207
    /\ c \notin 8232..8239
    /\ c \notin 8287..8303
    /\ c \notin 55296..63743
    /\ c \notin 65520..65535
\* str.isprintable(): true of the empty string
IsPrintable(s) == \A i \in 1..Len(s) : IsPrintableChar(s[i])

\* bytes.fromhex(s) raises ValueError on an odd length or a non-hex character
FromHexRaises(s) == Len(s) % 2 /= 0 \/ ~AllHex(s)
FromHex(s) == [i \in 1..(Len(s) \div 2) |-> 16 * HexVal(s[2 * i - 1]) + HexVal(s[2 * i])]

\* the 16-bit code units of a byte string, big or little endian; a trailing odd
\* byte is dropped (errors='ignore')
Utf16Units(b, big) ==
    [i \in 1..(Len(b) \div 2) |->
        IF big THEN 256 * b[2 * i - 1] + b[2 * i] ELSE 256 * b[2 * i] + b[2 * i - 1]]
RECURSIVE Utf16Scalars(_)
\* surrogate pairs combine, a lone surrogate is dropped (errors='ignore')
Utf16Scalars(u) ==
    IF u = <<>> THEN <<>>
    ELSE LET h == Head(u) IN
         IF h \in 55296..56319
         THEN IF Len(u) >= 2 /\ u[2] \in 56320..57343
              THEN <<65536 + (h - 55296) * 1024 + (u[2] - 56320)>>
                       \o Utf16Scalars(SubSeq(u, 3, Len(u)))
              ELSE Utf16Scalars(Tail(u))
         ELSE IF h \in 56320..57343 THEN Utf16Scalars(Tail(u))
         ELSE <<h>> \o Utf16Scalars(Tail(u))
\* bytes.decode('utf-16be', errors='ignore') and bytes.decode('utf-16le', errors='ignore')
DecodeUtf16BE(b) == Utf16Scalars(Utf16Units(b, TRUE))
DecodeUtf16LE(b) == Utf16Scalars(Utf16Units(b, FALSE))

IsCont(x) == x \in 128..191
RECURSIVE DecodeUtf8(_)
\* bytes.decode('utf-8', errors='ignore'): well-formed sequences decode, any
\* other byte is dropped
DecodeUtf8(b) ==
    IF b = <<>> THEN <<>>
    ELSE LET b1 == b[1]
             n  == Len(b)
             rest(k) == SubSeq(b, k + 1, n)
         IN
         IF b1 < 128 THEN <<b1>> \o DecodeUtf8(rest(1))
         ELSE IF b1 \in 194..223 /\ n >= 2 /\ IsCont(b[2])
         THEN <<(b1 - 192) * 64 + (b[2] - 128)>> \o DecodeUtf8(rest(2))
         ELSE IF /\ b1 \in 224..239 /\ n >= 3 /\ IsCont(b[2]) /\ IsCont(b[3])
                 /\ (b1 = 224 => b[2] >= 160)
                 /\ (b1 = 237 => b[2] <= 159)
         THEN <<(b1 - 224) * 4096 + (b[2] - 128) * 64 + (b[3] - 128)>> \o DecodeUtf8(rest(3))
         ELSE IF /\ b1 \in 240..244 /\ n >= 4 /\ IsCont(b[2]) /\ IsCont(b[3]) /\ IsCont(b[4])
                 /\ (b1 = 240 => b[2] >= 144)
                 /\ (b1 = 244 => b[2] <= 143)
         THEN <<(b1 - 240) * 262144 + (b[2] - 128) * 4096 + (b[3] - 128) * 64 + (b[4] - 128)>>
                  \o DecodeUtf8(rest(4))
         ELSE DecodeUtf8(rest(1))

\* s.encode('utf-8', errors='replace').decode('utf-8'): a lone surrogate becomes '?'
Utf8Normalize(s) == [i \in 1..Len(s) |-> IF s[i] \in 55296..57343 THEN 63 ELSE s[i]]

(***************************************************************************)
(* decode_sender (modem.py 572-667)                                        *)
(***************************************************************************)
\* the (method, decoded) candidates of the hex branch, with method_priority
SenderCandidates(clean_sender) ==
    LET hex_bytes == FromHex(clean_sender)
        ucs2  == Strip(DecodeUtf16BE(hex_bytes))
        utf8  == Strip(Without(DecodeUtf8(hex_bytes), 0))
        utf16le == Strip(DecodeUtf16LE(hex_bytes))
    IN  (IF /\ Len(clean_sender) % 4 = 0 /\ Len(clean_sender) >= 4
            /\ ucs2 /= <<>> /\ IsPrintable(ucs2)
         THEN {[prio |-> 3, text |-> ucs2]} ELSE {})
        \cup
        (IF Len(clean_sender) % 2 = 0 /\ utf8 /= <<>> /\ IsPrintable(utf8)
         THEN {[prio |-> 2, text |-> utf8]} ELSE {})
        \cup
        (IF Len(clean_sender) % 4 = 0 /\ utf16le /= <<>> /\ IsPrintable(utf16le)
         THEN {[prio |-> 1, text |-> utf16le]} ELSE {})

\* a choice among the longest candidates that takes the lowest priority
WorstOfLongest(cands) ==
    CHOOSE r \in cands : \A q \in cands :
        \/ Len(r.text) > Len(q.text)
        \/ (Len(r.text) = Len(q.text) /\ r.prio <= q.prio)

\* max(decoded_results, key=(isprintable, len, method_priority))
BestCandidate(cands) ==
    CHOOSE r \in cands : \A q \in cands :
        \/ Len(r.text) > Len(q.text)
        \/ (Len(r.text) = Len(q.text) /\ r.prio >= q.prio)

decode_sender(sender) ==
    IF sender = <<>> THEN <<>>
    ELSE LET clean_sender == Strip(Without(Without(sender, 43), 32)) IN
         IF ~AllHex(clean_sender) THEN Strip(Utf8Normalize(sender))
         ELSE LET decoded_results ==
                      IF Len(clean_sender) % 2 = 0 THEN SenderCandidates(clean_sender)
                      ELSE {}
              IN  IF decoded_results /= {}
                  THEN Strip(Utf8Normalize(BestCandidate(decoded_results).text))
                  ELSE Strip(Utf8Normalize(sender))

(***************************************************************************)
(* Heuristic fragment test (modem.py 1226-1238)                            *)
(***************************************************************************)
EndsWith(s, suffix) ==
    Len(s) >= Len(suffix) /\ SubSeq(s, Len(s) - Len(suffix) + 1, Len(s)) = suffix
StartsWith(s, prefix) == Len(s) >= Len(prefix) /\ SubSeq(s, 1, Len(prefix)) = prefix

is_message_fragment(content) ==
    \/ EndsWith(content, <<46, 46, 46>>)
    \/ StartsWith(content, <<46, 46, 46>>)
    \/ (Len(content) < 20 /\ ~\E i \in 1..Len(content) : IsDigit(content[i]))
    \/ Strip(content) \in {<<46, 46, 46, 46>>, <<46, 46, 46>>, <<46, 46>>}
    \/ /\ ~\E p \in {46, 33, 63, 58, 59} : EndsWith(Strip(content), <<p>>)
       /\ Len(content) > 30

\* detect_concatenated_message (modem.py 1418-1436): always (False, content, None)
detect_concatenated_message(sender, content) ==
    [is_concatenated |-> FALSE, final_content |-> content]

(***************************************************************************)
(* The sms table (utils/db.py): a row is modelled by its sender and        *)
(* content columns, the ones message_exists reads.  The table has no       *)
(* UNIQUE constraint (db.py 47-56), so it is a sequence of rows.           *)
(***************************************************************************)
Row(sender, content) == [sender |-> sender, content |-> content]

\* SELECT id FROM sms WHERE sender = ? AND content = ?
RowExists(store, sender, content) ==
    \E i \in 1..Len(store) : store[i] = Row(sender, content)

\* message_exists (utils/db.py 85-100): a database error is swallowed and
\* reported as False
message_exists(store, sender, content) == {RowExists(store, sender, content), FALSE}

\* save_sms (utils/db.py 102-130): an unconditional INSERT returning the new
\* row id; a database error returns None and inserts nothing
save_sms(store, sender, content) ==
    {[res |-> "created", store |-> Append(store, Row(sender, content))],
     [res |-> "failed", store |-> store]}

\* a save_sms whose signature takes the force_save keyword: the call goes through
SaveSmsCallAccepted == FALSE

\* the parameters of def save_sms (utils/db.py 102) and the keyword the
\* pipeline passes to it (modem.py 527): a keyword that is no parameter makes
\* the call raise TypeError before the body runs
save_sms_parameters == {"status", "sender", "timestamp", "content"}
save_sms_call_keywords == {"force_save"}
SaveSmsCallRaises == ~(save_sms_call_keywords \subseteq save_sms_parameters)

\* the two module flags (modem.py 35-36), and their values when switched off
ForceProcessOff == FALSE
SkipProcessedCheckOff == FALSE
FORCE_PROCESS_ALL_MESSAGES == TRUE
SKIP_PROCESSED_CHECK == TRUE

(***************************************************************************)
(* The pipeline state a handler works on: the sms table, the device slots  *)
(* and the record of what the handler did (trace).  A handler's result is  *)
(* the set of its possible outcomes: the database and the modem may fail.  *)
(***************************************************************************)
NoMsg == "none"
Ev(op, idx, sender, content, res) ==
    [op |-> op, idx |-> idx, sender |-> sender, content |-> content, res |-> res]
Log(st, e) == [st EXCEPT !.trace = Append(@, e)]

\* default of delete_sms_with_retry's max_retries
max_retries == 3

\* notify_admins_new_sms (modem.py 390-419): best effort, every failure is
\* swallowed; the call is recorded
notify_admins_new_sms(st, index, sender, content) ==
    Log(st, Ev("notify", index, sender, content, "sent"))

\* delete_sms (modem.py 456-471): one AT+CMGD=index; the modem answers OK and
\* has freed the slot, or the answer is not OK / the write raises
delete_sms(st, index) ==
    {[ret |-> TRUE,
      st  |-> Log([st EXCEPT !.device[index] = NoMsg],
                  Ev("delete", index, <<>>, <<>>, "ok"))],
     [ret |-> FALSE, st |-> Log(st, Ev("delete", index, <<>>, <<>>, "fail"))]}

\* a loop that goes on after a successful delete_sms
GoesOnAfterSuccess(deleted) == FALSE
\* "if delete_sms(ser, index): return True" (modem.py 476-477)
ReturnsAtSuccess(deleted) == deleted

RECURSIVE DeleteFrom(_, _, _)
\* the loop of delete_sms_with_retry from a given attempt on
DeleteFrom(st, index, attempt) ==
    IF attempt >= max_retries THEN {[ret |-> FALSE, st |-> st]}
    ELSE UNION {IF ReturnsAtSuccess(d.ret) THEN {d}
                ELSE DeleteFrom(d.st, index, attempt + 1) :
                    d \in delete_sms(st, index)}

\* delete_sms_with_retry (modem.py 473-484)
delete_sms_with_retry(st, index) == DeleteFrom(st, index, 0)

\* process_message after a successful save (modem.py 529-549, 561)
AfterSave(st, index, sender, content) ==
    LET notified == notify_admins_new_sms(st, index, sender, content)
    IN  {[ret |-> TRUE,
          st  |-> IF ~is_message_fragment(content)
                  THEN notify_admins_new_sms(d.st, index, sender, content)
                  ELSE d.st] :
            d \in delete_sms_with_retry(notified, index)}

\* a save branch that issues the delete although the store call raised
SaveBranchDeleteAnyway(st, index, sender, content) ==
    {[ret |-> FALSE, st |-> d.st] :
        d \in delete_sms_with_retry(
                  Log(st, Ev("store", index, sender, content, "raised")), index)}

\* the save_sms call of process_message and what follows (modem.py 526-553)
SaveBranch(st, index, sender, content) ==
    IF SaveSmsCallRaises
    THEN \* TypeError, caught at modem.py 563-570
         {[ret |-> FALSE, st |-> Log(st, Ev("store", index, sender, content, "raised"))]}
    ELSE UNION {IF sv.res = "created"
                THEN AfterSave(Log([st EXCEPT !.store = sv.store],
                                   Ev("store", index, sender, content, "created")),
                               index, sender, content)
                ELSE {[ret |-> FALSE,
                       st  |-> Log(st, Ev("store", index, sender, content, "failed"))]} :
                    sv \in save_sms(st.store, sender, content)}

\* process_message (modem.py 486-570)
process_message(st, index, sender, content, force_save) ==
    LET s0 == Log(st, Ev("process", index, sender, content, "call")) IN
    IF content = <<>> \/ sender = <<>>
    THEN {[ret |-> FALSE, st |-> Log(s0, Ev("invalid", index, sender, content, "kept"))]}
    ELSE UNION {
           LET s1 == Log(s0, Ev("exists", index, sender, content,
                                IF already_exists THEN "yes" ELSE "no")) IN
           IF already_exists /\ ~force_save
           THEN {[ret |-> TRUE,
                  st  |-> IF ~is_message_fragment(content)
                          THEN notify_admins_new_sms(s1, index, sender, content)
                          ELSE s1]}
           ELSE SaveBranch(s1, index, sender, content) :
               already_exists \in message_exists(st.store, sender, content)}

(***************************************************************************)
(* The messages the modem can hold.  In TEXT mode a message is the groups  *)
(* of its +CMGL / +CMGR header and its body line, as the modem sends them. *)
(***************************************************************************)
HexDigit(v) == IF v < 10 THEN 48 + v ELSE 55 + v
RECURSIVE Ucs2Hex(_)
\* what the modem sends for a text under AT+CSCS="UCS2": four hex digits per
\* UTF-16 code unit
Ucs2Hex(t) ==
    IF t = <<>> THEN <<>>
    ELSE LET u == Head(t) IN
         <<HexDigit(u \div 4096), HexDigit((u \div 256) % 16),
           HexDigit((u \div 16) % 16), HexDigit(u % 16)>> \o Ucs2Hex(Tail(t))

\* "+213555000111", "+213", "Ooredoo"
PhonePlain == <<43, 50, 49, 51, 53, 53, 53, 48, 48, 48, 49, 49, 49>>
PhoneShort == <<43, 50, 49, 51>>
NameSender == <<79, 111, 114, 101, 100, 111, 111>>
\* the Arabic word of the end-to-end example, "OK 5", "Solde 5", two control characters
TextArabic == <<1605, 1585, 1581, 1576, 1575>>
TextOk5    == <<79, 75, 32, 53>>
TextSolde  == <<83, 111, 108, 100, 101, 32, 53>>
TextGarbage == <<1, 2>>

TextMsgs == {"ar", "ucs", "txt", "bad", "empty"}
RawText(m) ==
    CASE m = "ar"    -> [sender |-> PhonePlain, content |-> Ucs2Hex(TextArabic)]
      [] m = "ucs"   -> [sender |-> Ucs2Hex(PhoneShort), content |-> Ucs2Hex(TextOk5)]
      [] m = "txt"   -> [sender |-> NameSender, content |-> TextSolde]
      [] m = "bad"   -> [sender |-> NameSender, content |-> TextGarbage]
      [] m = "empty" -> [sender |-> NameSender, content |-> <<>>]

\* device slots
NumSlots == MaxArrivals + 1
Index == 1..NumSlots

(***************************************************************************)
(* process_cmgl_text_mode (modem.py 952-1049)                              *)
(***************************************************************************)
\* the UCS2 attempt on the body (modem.py 991-1006)
text_mode_content(content) ==
    LET hex_content == Without(content, 32) IN
    IF content /= <<>> /\ AllHex(hex_content) /\ Len(hex_content) % 4 = 0
    THEN LET decoded_content == DecodeUtf16BE(FromHex(hex_content))
         IN  IF Strip(decoded_content) /= <<>> THEN decoded_content ELSE content
    ELSE content

\* one +CMGL entry of the listing (modem.py 964-1036); job = [st, processed]
TextModeEntry(job, index, m) ==
    LET raw     == RawText(m)
        sender  == decode_sender(raw.sender)
        content == text_mode_content(Strip(raw.content))
        done    == job.processed \cup {index}
        \* the header matched: the entry as received goes on record
        st0     == Log(job.st, Ev("listed", index, raw.sender, raw.content, m))
    IN
    IF raw.sender = <<>> THEN {job}
    ELSE IF ~SKIP_PROCESSED_CHECK /\ index \in job.processed
    THEN {[job EXCEPT !.st = Log(st0, Ev("skip", index, sender, <<>>, "processed"))]}
    ELSE IF sender /= <<>> /\ content /= <<>>
    THEN LET conc == detect_concatenated_message(sender, content) IN
         IF conc.is_concatenated /\ conc.final_content = <<>>
         THEN {[st |-> Log(st0, Ev("pending", index, sender, content, "partial")),
                processed |-> done]}
         ELSE {[st |-> r.st, processed |-> done] :
                  r \in process_message(st0, index, sender, conc.final_content,
                                        FORCE_PROCESS_ALL_MESSAGES)}
    ELSE {[st |-> Log(st0, Ev("decode", index, sender, content, "fail")),
           processed |-> done]}

RECURSIVE TextModeFrom(_, _, _)
TextModeFrom(jobs, listing, index) ==
    IF index > NumSlots THEN jobs
    ELSE TextModeFrom(
             UNION {IF listing[index] = NoMsg THEN {j}
                    ELSE TextModeEntry(j, index, listing[index]) : j \in jobs},
             listing, index + 1)

process_cmgl_text_mode(job, listing) == TextModeFrom({job}, listing, 1)

(***************************************************************************)
(* process_new_message_notification (modem.py 1122-1186), TEXT-mode +CMGR  *)
(***************************************************************************)
\* one +CMTI match: AT+CMGR=index, then process_message on the header's
\* sender group and the line after the header, both as received
NotificationEntry(job, index) ==
    LET m == job.st.device[index] IN
    IF ~SKIP_PROCESSED_CHECK /\ index \in job.processed THEN {job}
    ELSE IF m = NoMsg THEN {job}
    ELSE LET raw  == RawText(m)
             body == Strip(raw.content)
             \* with an empty body the line after the header is the final OK
             content == IF body = <<>> THEN <<79, 75>> ELSE body
         IN  IF raw.sender = <<>> THEN {job}
             ELSE {job}   \* the +CMGR read failed
                  \cup
                  {[st |-> r.st,
                    processed |-> IF r.ret THEN job.processed \cup {index}
                                  ELSE job.processed] :
                      r \in process_message(job.st, index, raw.sender, content,
                                            FORCE_PROCESS_ALL_MESSAGES)}

RECURSIVE NotificationsFrom(_, _)
NotificationsFrom(jobs, matches) ==
    IF matches = <<>> THEN jobs
    ELSE NotificationsFrom(UNION {NotificationEntry(j, Head(matches)) : j \in jobs},
                           Tail(matches))

(***************************************************************************)
(* The built-in PDU decoder (modem.py 185-375).  The optional libraries    *)
(* smspdu and smspdudecoder are taken as not installed (modem.py 17-19,    *)
(* 26-28), so decode_pdu_professional is the built-in decoder.             *)
(***************************************************************************)
\* Python h[a:b] for 0 <= a <= b
Slice(h, a, b) == SubSeq(h, a + 1, IF b < Len(h) THEN b ELSE Len(h))
\* str.upper() on ASCII letters
Upper(s) == [i \in 1..Len(s) |-> IF s[i] \in 97..122 THEN s[i] - 32 ELSE s[i]]
RECURSIVE HexInt(_)
\* int(s, 16); raises ValueError on an empty or non-hex string
HexInt(s) == IF s = <<>> THEN 0 ELSE 16 * HexInt(SubSeq(s, 1, Len(s) - 1)) + HexVal(s[Len(s)])
HexIntRaises(s) == s = <<>> \/ ~AllHex(s)

\* the bits of a hex string, most significant first
HexBits(h) ==
    [i \in 1..(4 * Len(h)) |->
        (HexVal(h[((i - 1) \div 4) + 1]) \div
            (CASE (i - 1) % 4 = 0 -> 8 [] (i - 1) % 4 = 1 -> 4
               [] (i - 1) % 4 = 2 -> 2 [] OTHER -> 1)) % 2]

\* decode_7bit_gsm (modem.py 213-230): consecutive 7-bit groups of the bit
\* string, most significant first, zero groups skipped
decode_7bit_gsm(hex_data) ==
    IF HexIntRaises(hex_data) THEN hex_data
    ELSE LET bits == HexBits(hex_data)
             code(k) == 64 * bits[7 * k - 6] + 32 * bits[7 * k - 5] + 16 * bits[7 * k - 4]
                        + 8 * bits[7 * k - 3] + 4 * bits[7 * k - 2] + 2 * bits[7 * k - 1]
                        + bits[7 * k]
         IN  SelectSeq([k \in 1..(Len(bits) \div 7) |-> code(k)], LAMBDA c : c > 0)

\* decode_ucs2_message (modem.py 232-238)
decode_ucs2_message(hex_data) ==
    IF FromHexRaises(hex_data) THEN hex_data ELSE DecodeUtf16BE(FromHex(hex_data))

RECURSIVE SwapSemiOctets(_)
SwapSemiOctets(h) ==
    IF Len(h) = 0 THEN <<>>
    ELSE IF Len(h) = 1 THEN h
    ELSE <<h[2], h[1]>> \o SwapSemiOctets(SubSeq(h, 3, Len(h)))
RECURSIVE RStrip(_, _)
RStrip(s, ch) ==
    IF s /= <<>> /\ s[Len(s)] = ch THEN RStrip(SubSeq(s, 1, Len(s) - 1), ch) ELSE s

\* decode_phone_number (modem.py 185-211)
decode_phone_number(phone_hex, type_of_address) ==
    IF type_of_address = 208 THEN decode_7bit_gsm(phone_hex)
    ELSE LET phone == RStrip(RStrip(SwapSemiOctets(phone_hex), 70), 102)
         IN  IF type_of_address = 145 THEN <<43>> \o phone ELSE phone

PduNone == [ok |-> FALSE, sender |-> <<>>, content |-> <<>>]
PduResult(sender, content) == [ok |-> TRUE, sender |-> sender, content |-> content]

\* "Unknown", "System", "Short PDU data: ", "Raw PDU: ", "Empty message"
StrUnknown == <<85, 110, 107, 110, 111, 119, 110>>
StrSystem  == <<83, 121, 115, 116, 101, 109>>
StrShortPdu == <<83, 104, 111, 114, 116, 32, 80, 68, 85, 32, 100, 97, 116, 97, 58, 32>>
StrRawPdu  == <<82, 97, 119, 32, 80, 68, 85, 58, 32>>
StrEmptyMessage == <<69, 109, 112, 116, 121, 32, 109, 101, 115, 115, 97, 103, 101>>

\* decode_simple_short_pdu (modem.py 351-375)
decode_simple_short_pdu(pdu_hex) ==
    LET content_hex == IF Len(pdu_hex) >= 8 THEN SubSeq(pdu_hex, Len(pdu_hex) - 7, Len(pdu_hex))
                       ELSE pdu_hex
    IN  IF Len(pdu_hex) >= 4 /\ ~FromHexRaises(content_hex)
        THEN LET content == Strip(DecodeUtf8(FromHex(content_hex)))
             IN  PduResult(StrUnknown,
                           IF content = <<>> THEN StrShortPdu \o pdu_hex ELSE content)
        ELSE PduResult(StrSystem, StrRawPdu \o pdu_hex)

\* steps 6-11 of decode_pdu_message, after the sender address (modem.py 296-341)
PduAfterSender(h, sender, pdu_type, pos) ==
    LET L    == Len(h)
        pos6 == IF pos + 2 <= L THEN pos + 2 ELSE pos
        has_dcs == pos6 + 2 <= L
        f_dcs == Slice(h, pos6, pos6 + 2)
        pos7 == IF has_dcs THEN pos6 + 2 ELSE pos6
        pos8 == IF pos7 + 14 <= L THEN pos7 + 14 ELSE pos7
        has_udl == pos8 + 2 <= L
        f_udl == Slice(h, pos8, pos8 + 2)
        pos9 == IF has_udl THEN pos8 + 2 ELSE pos8
        has_udh == (pdu_type \div 64) % 2 = 1 /\ pos9 + 2 <= L
        f_udh == Slice(h, pos9, pos9 + 2)
    IN  IF \/ (has_dcs /\ HexIntRaises(f_dcs))
           \/ (has_udl /\ HexIntRaises(f_udl))
           \/ (has_udh /\ HexIntRaises(f_udh))
        THEN decode_simple_short_pdu(h)
        ELSE LET dcs   == IF has_dcs THEN HexInt(f_dcs) ELSE 0
                 pos10 == IF has_udh THEN pos9 + 2 + 2 * HexInt(f_udh) ELSE pos9
                 remaining_hex == IF pos10 < L THEN SubSeq(h, pos10 + 1, L) ELSE <<>>
             IN  PduResult(sender,
                     IF remaining_hex = <<>> THEN StrEmptyMessage
                     ELSE IF dcs = 0 THEN decode_7bit_gsm(remaining_hex)
                     ELSE decode_ucs2_message(remaining_hex))

\* decode_pdu_message (modem.py 240-349)
decode_pdu_message(pdu_hex) ==
    LET h == Upper(Without(pdu_hex, 32))
        L == Len(h)
        f_smsc == Slice(h, 0, 2)
    IN
    IF L < 12 THEN PduNone
    ELSE IF HexIntRaises(f_smsc) THEN decode_simple_short_pdu(h)
    ELSE LET pos1 == 2 + 2 * HexInt(f_smsc)
             f_type == Slice(h, pos1, pos1 + 2)
             pos2 == pos1 + 2
             f_slen == Slice(h, pos2, pos2 + 2)
             pos3 == pos2 + 2
             f_stype == Slice(h, pos3, pos3 + 2)
             pos4 == pos3 + 2
         IN
         IF pos1 >= L THEN PduNone
         ELSE IF HexIntRaises(f_type) THEN decode_simple_short_pdu(h)
         ELSE IF pos2 >= L THEN decode_simple_short_pdu(h)
         ELSE IF HexIntRaises(f_slen) THEN decode_simple_short_pdu(h)
         ELSE IF pos3 >= L THEN decode_simple_short_pdu(h)
         ELSE IF HexIntRaises(f_stype) THEN decode_simple_short_pdu(h)
         ELSE LET sender_hex_len == ((HexInt(f_slen) + 1) \div 2) * 2 IN
              IF pos4 + sender_hex_len > L THEN decode_simple_short_pdu(h)
              ELSE PduAfterSender(h,
                       decode_phone_number(Slice(h, pos4, pos4 + sender_hex_len),
                                           HexInt(f_stype)),
                       HexInt(f_type), pos4 + sender_hex_len)

\* decode_pdu_professional (modem.py 84-161) with neither library installed
decode_pdu_professional(pdu_hex) ==
    LET r == decode_pdu_message(pdu_hex)
    IN  IF r.ok /\ r.sender /= <<>> /\ r.content /= <<>> THEN r ELSE PduNone

(***************************************************************************)
(* PDU-mode messages: SMS-DELIVER PDUs with a concatenation header         *)
(* (UDH 05 00 03 ref total part), UCS2 payload, sender +213555000111.      *)
(***************************************************************************)
HexStr(nibbles) == [i \in 1..Len(nibbles) |-> HexDigit(nibbles[i])]

\* the texts of the three parts: "He", "ll", "o5"
PartText(part) ==
    CASE part = 1 -> <<72, 101>> [] part = 2 -> <<108, 108>> [] OTHER -> <<111, 53>>

\* SMSC 00, type 44 (UDHI set), address 0C 91 125355001011, PID 00, DCS 08,
\* timestamp 32105101020100, UDL 0A, UDH 05 00 03 ref 03 part, payload
ConcatPdu(ref, part) ==
    HexStr(<<0, 0, 4, 4, 0, 12, 9, 1, 1, 2, 5, 3, 5, 5, 0, 0, 1, 0, 1, 1, 0, 0, 0, 8,
             3, 2, 1, 0, 5, 1, 0, 1, 0, 2, 0, 1, 0, 0, 0, 10,
             0, 5, 0, 0, 0, 3, ref \div 16, ref % 16, 0, 3, 0, part>>)
        \o Ucs2Hex(PartText(part))

PduMsgs == {"p1", "p2", "p3"}
PartOf(m) == CASE m = "p1" -> 1 [] m = "p2" -> 2 [] OTHER -> 3
\* the three parts share reference 7
RawPdu(m) == ConcatPdu(7, PartOf(m))

(***************************************************************************)
(* process_cmgl_pdu_mode (modem.py 1051-1120)                              *)
(***************************************************************************)
PduModeEntry(job, index, m) ==
    LET d      == decode_pdu_professional(RawPdu(m))
        sender == IF d.sender /= <<>> THEN decode_sender(d.sender) ELSE d.sender
        done   == job.processed \cup {index}
        \* the header matched: the entry goes on record
        st0    == Log(job.st, Ev("listed", index, <<>>, <<>>, m))
    IN
    IF ~SKIP_PROCESSED_CHECK /\ index \in job.processed
    THEN {[job EXCEPT !.st = Log(st0, Ev("skip", index, sender, <<>>, "processed"))]}
    ELSE IF sender /= <<>> /\ d.content /= <<>>
    THEN {[st |-> r.st, processed |-> done] :
             r \in process_message(st0, index, sender, d.content,
                                   FORCE_PROCESS_ALL_MESSAGES)}
    ELSE {[st |-> Log(st0, Ev("decode", index, sender, d.content, "fail")),
           processed |-> done]}

RECURSIVE PduModeFrom(_, _, _)
PduModeFrom(jobs, listing, index) ==
    IF index > NumSlots THEN jobs
    ELSE PduModeFrom(
             UNION {IF listing[index] = NoMsg THEN {j}
                    ELSE PduModeEntry(j, index, listing[index]) : j \in jobs},
             listing, index + 1)

process_cmgl_pdu_mode(job, listing) == PduModeFrom({job}, listing, 1)

\* a handler that leaves the listing unprocessed
ListsNothing(job, listing, sms_mode) == {job}

\* process_cmgl_response (modem.py 926-950): dispatch on the global SMS_MODE
process_cmgl_response(job, listing, sms_mode) ==
    IF \A i \in Index : listing[i] = NoMsg THEN {job}
    ELSE IF sms_mode = "TEXT" THEN process_cmgl_text_mode(job, listing)
    ELSE process_cmgl_pdu_mode(job, listing)

(***************************************************************************)
(* State                                                                   *)
(***************************************************************************)
VARIABLES
    mode,               \* SMS_MODE set by init_modem: "TEXT" or "PDU"
    arrivals,           \* the messages still to arrive on the device, in order
    device,             \* device slot -> message held, or NoMsg
    pending_cmti,       \* slots of the unread +CMTI lines in the serial input buffer
    store,              \* the sms table
    processed_indices,  \* listen_for_sms's processed_indices
    trace,              \* what the last handler run did, in order
    prev_trace,         \* what the handler run before it did
    last_op             \* the last step taken

\* the service around the pipeline: main.py, find_modem_port, listen_for_sms,
\* init_modem, and the processes that wait for the readiness flag
VARIABLES
    launch,        \* how the program was started (main.py 138-152, telegram_bot.py 589)
    pc,            \* where the modem service is
    port,          \* the port find_modem_port returned, 0 before that
    ser_open,      \* the service holds the serial port open
    error_count,   \* listen_for_sms's error_count
    wait_time,     \* the last wait_time computed at modem.py 1402, 0 before that
    SMS_MODE,      \* the global set by init_modem, "unset" before that
    flag,          \* data/sms_ready.flag exists
    negotiated,    \* init_modem has returned True at least once
    modem_port,    \* the port on which a modem answers, 0 when none does
    text_ok,       \* the modem accepts AT+CMGF=1
    sup_pc,        \* where supervisor_mode is
    bot_pc,        \* where the Telegram side is
    stop_signal,   \* Ctrl+C has been delivered to the program
    init_run,      \* what the last run of init_modem saw and did
    iter_io,       \* what the serial line did in the last polling iteration
    sms_threads    \* the threads alive that run run_modem_service

\* single functions called on their own, and the multipart store of modem.py 39
VARIABLES
    call,                        \* the last call: function, argument, result
    pending_multipart_messages,  \* the module's dict of that name
    clock                        \* datetime.now(), in minutes

\* the caches of AdvancedDecoder.decode_message (advanced_decoder.py 158-187)
VARIABLES
    cache,               \* self.cache: the cached messages, oldest insertion first
    decode_message_lru,  \* the lru_cache around the method, least recent first
    recency              \* the messages of self.cache, least recently asked for first

\* the +CMTI lines a poll discarded unread (modem.py 441-453)
VARIABLE lost_cmti

\* two instances of main.py and the file bot.lock (main.py 16-26)
VARIABLES
    lock_file,  \* bot.lock exists
    instance    \* where each instance of main.py is

\* the sms table as TelegramBot.process_unsent_messages sees it
\* (telegram_bot.py 120-204)
VARIABLES
    is_sent_to_telegram,  \* the column of that name, by row id
    run,                  \* each run of process_unsent_messages
    delivered             \* how often each row has been sent to Telegram

pvars == <<mode, arrivals, device, pending_cmti, store, processed_indices,
           trace, prev_trace>>
svars == <<launch, pc, port, ser_open, error_count, wait_time, SMS_MODE, flag,
           negotiated, modem_port, text_ok, sup_pc, bot_pc, stop_signal,
           init_run, iter_io, sms_threads>>
lvars == <<lock_file, instance>>
tvars == <<is_sent_to_telegram, run, delivered>>
xvars == <<lost_cmti, lvars, tvars>>
evars == <<cache, decode_message_lru, recency, xvars>>
fvars == <<call, pending_multipart_messages, clock, evars>>
vars == <<pvars, last_op, svars, fvars>>

\* no function has been called on its own and no part is pending
NoCall == [fn |-> "none", arg |-> <<>>, out |-> <<>>]
\* instances of main.py started, rows of the sms table, and runs of
\* process_unsent_messages considered
MaxInstances == 3
MaxRows == 2
MaxRuns == 2
Instances == 1..MaxInstances
Rows == 1..MaxRows
Runs == 1..MaxRuns
NoRun == [pc |-> "idle", messages |-> <<>>, attempt |-> 0]
\* one instance holds the lock and runs; no row is waiting for Telegram
LockHeld ==
    /\ lock_file = TRUE
    /\ instance = [p \in Instances |-> IF p = 1 THEN "running" ELSE "off"]
TelegramIdle ==
    /\ is_sent_to_telegram = [r \in Rows |-> 1]
    /\ run = [p \in Runs |-> NoRun]
    /\ delivered = [r \in Rows |-> 0]
FunctionsIdle ==
    /\ call = NoCall
    /\ pending_multipart_messages = {}
    /\ clock = 0
    /\ cache = <<>>
    /\ decode_message_lru = <<>>
    /\ recency = <<>>
    /\ lost_cmti = {}
    /\ LockHeld
    /\ TelegramIdle

\* the record of an init_modem run that has not happened
NoInitRun == [result |-> "none", at |-> "", preferred |-> "none", text_test |-> "not_tried",
              sms_mode |-> "none", storage |-> "none", final |-> "", wrote_flag |-> FALSE]

\* the service as the pipeline sees it: port open, initialised, polling
SessionSteady ==
    /\ launch = "sms"
    /\ pc = "ready"
    /\ port = 1
    /\ ser_open = TRUE
    /\ error_count = 0
    /\ wait_time = 0
    /\ SMS_MODE = mode
    /\ flag = TRUE
    /\ negotiated = TRUE
    /\ modem_port = 1
    /\ text_ok = (mode = "TEXT")
    /\ sup_pc = "off"
    /\ bot_pc = "off"
    /\ stop_signal = FALSE
    /\ init_run = NoInitRun
    /\ iter_io = "none"
    /\ sms_threads = 1

\* rows that may be in the table when the service starts: none, or the row of
\* an earlier run for the message "ucs"
SeededStores == {<<>>, <<Row(PhoneShort, TextOk5)>>}

RECURSIVE SeqsOfLen(_, _)
SeqsOfLen(S, n) ==
    IF n = 0 THEN {<<>>}
    ELSE {Append(q, x) : q \in SeqsOfLen(S, n - 1), x \in S}

\* the arrival orders considered: every TEXT-mode order of MaxArrivals
\* messages; in PDU mode the three parts in the order 1/3, 3/3, 2/3
Scenarios(m) ==
    IF m = "TEXT" THEN SeqsOfLen(TextMsgs, MaxArrivals) ELSE {<<"p1", "p3", "p2">>}

Init ==
    /\ mode \in {"TEXT", "PDU"}
    /\ arrivals \in Scenarios(mode)
    /\ device = [i \in Index |-> NoMsg]
    /\ pending_cmti = <<>>
    /\ store \in SeededStores
    /\ processed_indices = {}
    /\ trace = <<>>
    /\ prev_trace = <<>>
    /\ last_op = "start"
    /\ SessionSteady
    /\ FunctionsIdle

\* a message arrives: the modem stores it in the lowest free slot and, under
\* AT+CNMI=2,1, writes +CMTI: "SM",<slot> to the serial line
Arrive ==
    /\ arrivals /= <<>>
    /\ \E i \in Index :
          /\ device[i] = NoMsg
          /\ \A j \in Index : j < i => device[j] /= NoMsg
          /\ device' = [device EXCEPT ![i] = Head(arrivals)]
          /\ pending_cmti' = Append(pending_cmti, i)
    /\ arrivals' = Tail(arrivals)
    /\ last_op' = "arrive"
    /\ UNCHANGED <<mode, store, processed_indices, trace, prev_trace>>
    /\ UNCHANGED <<svars, fvars>>

\* one poll of listen_for_sms (modem.py 1358-1383): AT+CMGL lists the device
\* (send_at_command first resets the input buffer, dropping unread +CMTI
\* lines) and process_cmgl_response handles the listing
Poll(answered) ==
    /\ LET listing == IF answered THEN device ELSE [i \in Index |-> NoMsg]
           job == [st |-> [store |-> store, device |-> device, trace |-> <<>>],
                   processed |-> processed_indices]
       IN  \E j \in process_cmgl_response(job, listing, mode) :
              /\ store' = j.st.store
              /\ device' = j.st.device
              /\ trace' = j.st.trace
              /\ processed_indices' = j.processed
    /\ pending_cmti' = <<>>
    /\ lost_cmti' = lost_cmti \cup {pending_cmti[k] : k \in 1..Len(pending_cmti)}
    /\ prev_trace' = trace
    /\ last_op' = "poll"
    /\ UNCHANGED <<mode, arrivals>>
    /\ UNCHANGED <<svars, call, pending_multipart_messages, clock,
                   cache, decode_message_lru, recency, lvars, tvars>>

\* the modem answers the listing within the wait, or the wait ends first
PollCycle == \E answered \in BOOLEAN : Poll(answered)

\* the notification check of listen_for_sms (modem.py 1385-1391): the buffered
\* +CMTI lines are read at once; the +CMGR header pattern only matches the
\* TEXT-mode header, so in PDU mode every match is skipped
Notification ==
    /\ pending_cmti /= <<>>
    /\ LET job == [st |-> [store |-> store, device |-> device, trace |-> <<>>],
                   processed |-> processed_indices]
       IN  \E j \in (IF mode = "TEXT" THEN NotificationsFrom({job}, pending_cmti)
                     ELSE {job}) :
              /\ store' = j.st.store
              /\ device' = j.st.device
              /\ trace' = j.st.trace
              /\ processed_indices' = j.processed
    /\ pending_cmti' = <<>>
    /\ prev_trace' = trace
    /\ last_op' = "cmti"
    /\ UNCHANGED <<mode, arrivals>>
    /\ UNCHANGED <<svars, fvars>>

Next == Arrive \/ PollCycle \/ Notification

Spec == Init /\ [][Next]_vars

(***************************************************************************)
(* The store on its own: save_sms called directly, any number of times     *)
(* with arguments from a small set.                                        *)
(***************************************************************************)
\* number of save_sms calls in one run
MaxCalls == 3

InitStore ==
    /\ mode = "TEXT"
    /\ arrivals = <<>>
    /\ device = [i \in Index |-> NoMsg]
    /\ pending_cmti = <<>>
    /\ store = <<>>
    /\ processed_indices = {}
    /\ trace = <<>>
    /\ prev_trace = <<>>
    /\ last_op = "start"
    /\ SessionSteady
    /\ FunctionsIdle

\* save_sms(status, sender, timestamp, content), positional
SaveSmsCall ==
    /\ Len(trace) < MaxCalls
    /\ \E sender \in {PhoneShort, NameSender}, content \in {TextOk5, TextSolde} :
          \E r \in save_sms(store, sender, content) :
             /\ store' = r.store
             /\ trace' = Append(trace, Ev("store", 0, sender, content, r.res))
    /\ last_op' = "save_sms"
    /\ UNCHANGED <<mode, arrivals, device, pending_cmti, processed_indices, prev_trace>>
    /\ UNCHANGED <<svars, fvars>>

NextStore == SaveSmsCall

SpecStore == InitStore /\ [][NextStore]_vars

(***************************************************************************)
(* Reading the record of a handler run                                     *)
(***************************************************************************)
Has(t, op, idx) == \E k \in 1..Len(t) : t[k].op = op /\ t[k].idx = idx
HasRes(t, op, idx, res) ==
    \E k \in 1..Len(t) : t[k].op = op /\ t[k].idx = idx /\ t[k].res = res
\* the events of the same process_message call as event k: those after the
\* last "listed"/"process" entry for another index
SameCall(t, j, k) ==
    /\ j < k
    /\ t[j].idx = t[k].idx
    /\ \A l \in (j + 1)..(k - 1) : t[l].idx = t[k].idx
\* the store call for idx did not return success
StoreFailed(t, idx) ==
    \E k \in 1..Len(t) : t[k].op = "store" /\ t[k].idx = idx /\ t[k].res /= "created"
RowCount(sender, content) ==
    Cardinality({i \in 1..Len(store) : store[i] = Row(sender, content)})

NeitherHexNorPrintable(raw) == raw /= <<>> /\ ~AllHex(raw) /\ ~IsPrintable(raw)

C3_GarbageIsDecodeFailure ==
    \A k \in 1..Len(trace) :
        (trace[k].op = "listed" /\ mode = "TEXT" /\ NeitherHexNorPrintable(trace[k].content))
            => /\ HasRes(trace, "decode", trace[k].idx, "fail")
               /\ ~Has(trace, "process", trace[k].idx)
               /\ ~Has(trace, "delete", trace[k].idx)

(***************************************************************************)
(* C4: when the store call fails for a message no delete is issued for its *)
(* index, and the next poll cycle that lists the index runs the pipeline   *)
(* for it again: it is not skipped as already processed.  Each stage runs  *)
(* when the one before it succeeded: decode, then the store call.          *)
(***************************************************************************)
C4_StoreFailureKeepsAndRetries ==
    /\ \A k \in 1..Len(trace) :
          (trace[k].op = "store" /\ trace[k].res /= "created")
              => ~\E l \in 1..Len(trace) : SameCall(trace, k, l) /\ trace[l].op = "delete"
    /\ \A idx \in Index :
          (last_op = "poll" /\ StoreFailed(prev_trace, idx) /\ Has(trace, "listed", idx))
              => /\ ~Has(trace, "skip", idx)
                 /\ \/ HasRes(trace, "decode", idx, "fail")
                    \/ (Has(trace, "process", idx) /\ Has(trace, "store", idx))

\* a poll cycle that lists, and runs the store call for, an index whose
\* store call failed in the handler run before, the index being marked processed
C4_Witness ==
    \E idx \in Index :
        /\ last_op = "poll"
        /\ StoreFailed(prev_trace, idx)
        /\ ~Has(prev_trace, "delete", idx)
        /\ idx \in processed_indices
        /\ Has(trace, "listed", idx)
        /\ Has(trace, "store", idx)

(***************************************************************************)
(* C5: calling the store operation twice with identical arguments yields   *)
(* exactly one created result, every later call reports duplicate, and the *)
(* store ends with exactly one record for the pair.  (Under SpecStore.)    *)
(***************************************************************************)
C5_StoreIfNewIdempotent ==
    \A j, k \in 1..Len(trace) :
        (/\ j < k
         /\ trace[j].op = "store" /\ trace[k].op = "store"
         /\ trace[j].sender = trace[k].sender /\ trace[j].content = trace[k].content
         /\ trace[j].res = "created")
            => /\ trace[k].res = "duplicate"
               /\ RowCount(trace[k].sender, trace[k].content) = 1

(***************************************************************************)
(* C6: a TEXT-mode listing with one message at index 1, plain phone-number *)
(* sender and UCS2-hex body: after the poll cycle the store holds the      *)
(* record with that sender and the decoded content, and the delete for     *)
(* index 1 comes only after the store call returned created.               *)
(***************************************************************************)
C6_EndToEnd ==
    (/\ last_op = "poll" /\ mode = "TEXT"
     /\ \E k \in 1..Len(trace) :
           /\ trace[k].op = "listed" /\ trace[k].idx = 1
           /\ trace[k].sender = PhonePlain
           /\ trace[k].content = Ucs2Hex(TextArabic))
        => /\ RowCount(PhonePlain, TextArabic) = 1
           /\ \A k \in 1..Len(trace) :
                 (trace[k].op = "delete" /\ trace[k].idx = 1) =>
                     \E j \in 1..Len(trace) :
                         SameCall(trace, j, k) /\ trace[j].op = "store"
                             /\ trace[j].res = "created"

(***************************************************************************)
(* C7: when a listed message's pair is found to be already in the store,   *)
(* the pipeline still issues a device delete for that index.               *)
(***************************************************************************)
C7_DuplicateIsDeleted ==
    \A k \in 1..Len(trace) :
        (trace[k].op = "exists" /\ trace[k].res = "yes")
            => \E l \in 1..Len(trace) : SameCall(trace, k, l) /\ trace[l].op = "delete"

CompleteText == PartText(1) \o PartText(2) \o PartText(3)

C10_OneCompleteMessage ==
    mode = "PDU" =>
        /\ \A k \in 1..Len(trace) :
              trace[k].op = "process" =>
                  /\ arrivals = <<>>
                  /\ trace[k].content = CompleteText
        /\ Cardinality({k \in 1..Len(trace) : trace[k].op = "process"}) <= 1


(***************************************************************************)
(* The service: discovery, connection, initialisation, polling, reconnect  *)
(* (main.py 28-40, modem.py 421-439, 716-804, 1313-1413), the supervisor   *)
(* (main.py 70-136) and the Telegram side's start (main.py 42-63,          *)
(* telegram_bot.py 412-434).  Elapsed time is not part of the state: a     *)
(* loop that sleeps until a deadline may see the deadline pass at any of   *)
(* its iterations.                                                         *)
(***************************************************************************)
\* number of consecutive connection errors followed
MaxErrors == 7

\* the serial ports serial.tools.list_ports.comports() lists
Ports == {1, 2}

\* except Exception (modem.py 1395, 1399, main.py 38) catches every exception
\* class but the BaseException ones; KeyboardInterrupt is one of those
CatchesNothing(exc) == FALSE
IsException(exc) == exc /= "KeyboardInterrupt"

\* where the modem service is after exc was raised in the polling loop, in the
\* connection block, in run_modem_service: the innermost handler that catches
service_except(exc) == IF IsException(exc) THEN "service_error_wait" ELSE "shutdown"
connection_except(exc) == IF IsException(exc) THEN "reconnect_wait" ELSE service_except(exc)
polling_except(exc) == IF IsException(exc) THEN "ready" ELSE connection_except(exc)

\* modem.py 1402
reconnect_wait_time(n) == IF n * 5 < 30 THEN n * 5 ELSE 30

\* find_modem_port (modem.py 421-439): the first listed port that answers AT
\* with OK, or None (0); while no modem answers, listing the ports (comports)
\* may itself raise
find_modem_port(answering) ==
    IF answering \in Ports
    THEN {[raised |-> FALSE, port |-> answering]}
    ELSE {[raised |-> FALSE, port |-> 0], [raised |-> TRUE, port |-> 0]}

\* the reply to a command that any live modem accepts: OK, or nothing in time
Reply(up) == IF up THEN {"OK", ""} ELSE {""}
\* AT+CMGF=<target>: accepted for PDU (0), for TEXT (1) only by a modem that
\* supports it; an ERROR reply carries no OK
ModeSet(up, text, target) ==
    IF up /\ (target = 0 \/ text)
    THEN {[reply |-> "OK", applied |-> TRUE], [reply |-> "", applied |-> FALSE]}
    ELSE {[reply |-> "", applied |-> FALSE]}
\* AT+CMGF?: the digit of the current format, or nothing in time
ModeQuery(up, cmgf) == IF up THEN {IF cmgf = 1 THEN "1" ELSE "0", ""} ELSE {""}

\* AT+CPMS="SM","SM","SM" among the essential commands (modem.py 759, 772): a
\* modem may accept SIM storage or reject it; a reply without OK only logs a
\* warning (777-783) and nothing else is selected
StorageAfter(resp) == IF resp = "OK" THEN "SM" ELSE "none"
StorageReplies(up) == IF up THEN {"OK", "ERROR", ""} ELSE {""}

\* expected_value "not in" resp (modem.py 788-790)
ModeConfirmedAlways(expected_value, resp) == TRUE
ModeConfirmed(expected_value, resp) == resp = expected_value

\* step 2 of init_modem (modem.py 730-754); ATZ has left the modem in PDU format
ChooseMode(preferred_mode, up, text) ==
    IF preferred_mode = "AUTO"
    THEN UNION {
           IF t.reply = "OK"
           THEN {[sms_mode |-> IF q = "1" THEN "TEXT" ELSE "PDU",
                  cmgf |-> IF t.applied THEN 1 ELSE 0,
                  text_test |-> IF q = "1" THEN "confirmed" ELSE "unconfirmed"] :
                    q \in ModeQuery(up, IF t.applied THEN 1 ELSE 0)}
           ELSE {[sms_mode |-> "PDU", cmgf |-> 0, text_test |-> "refused"]} :
           t \in ModeSet(up, text, 1)}
    ELSE IF preferred_mode = "TEXT"
    THEN {[sms_mode |-> "TEXT", cmgf |-> 0, text_test |-> "not_tried"]}
    ELSE {[sms_mode |-> "PDU", cmgf |-> 0, text_test |-> "not_tried"]}

\* init_modem (modem.py 716-804): the runs it can have against a modem that is
\* up or not and supports TEXT or not.  A run either raises ("not_responding",
\* "mode_mismatch") or returns True ("ok") having set SMS_MODE to sms_mode.
init_modem(preferred_mode, up, text) ==
    UNION {
      IF at /= "OK"
      THEN {[NoInitRun EXCEPT !.result = "not_responding", !.preferred = preferred_mode]}
      ELSE UNION {
             UNION {
               {[result |-> IF ModeConfirmed(IF c.sms_mode = "TEXT" THEN "1" ELSE "0", q)
                            THEN "ok" ELSE "mode_mismatch",
                 at |-> at, preferred |-> preferred_mode, text_test |-> c.text_test,
                 sms_mode |-> c.sms_mode, storage |-> StorageAfter(cpms),
                 final |-> q, wrote_flag |-> FALSE] :
                   q \in ModeQuery(up, IF m.applied
                                       THEN (IF c.sms_mode = "TEXT" THEN 1 ELSE 0)
                                       ELSE c.cmgf),
                   cpms \in StorageReplies(up)} :
               m \in ModeSet(up, text, IF c.sms_mode = "TEXT" THEN 1 ELSE 0)} :
             c \in ChooseMode(preferred_mode, up, text)} :
      at \in Reply(up)}

\* listen_for_sms_with_event (modem.py 1408-1410) asks for TEXT
preferred_mode_of_service == "TEXT"

\* the program is started as "python main.py" (supervisor_mode), as
\* "python main.py sms" with the Telegram side as "python main.py telegram",
\* or as "python main.py sms" with telegram_bot.py run as a script
Launches == {"supervisor", "sms+telegram", "sms+bot"}

InitService ==
    /\ mode = "TEXT"
    /\ arrivals = <<>>
    /\ device = [i \in Index |-> NoMsg]
    /\ pending_cmti = <<>>
    /\ store = <<>>
    /\ processed_indices = {}
    /\ trace = <<>>
    /\ prev_trace = <<>>
    /\ last_op = "start"
    /\ FunctionsIdle
    /\ launch \in Launches
    /\ pc = "discover"
    /\ port = 0
    /\ ser_open = FALSE
    /\ error_count = 0
    /\ wait_time = 0
    /\ SMS_MODE = "unset"
    /\ flag \in BOOLEAN          \* the flag file of an earlier run is never removed
    /\ negotiated = flag
    /\ modem_port \in {0} \cup Ports
    /\ text_ok \in BOOLEAN
    /\ sup_pc = IF launch = "supervisor" THEN "wait" ELSE "off"
    /\ bot_pc = CASE launch = "supervisor" -> "off"
                  [] launch = "sms+telegram" -> "wait_flag"
                  [] OTHER -> "check"
    /\ stop_signal = FALSE
    /\ init_run = NoInitRun
    /\ iter_io = "none"
    /\ sms_threads = 1

Running == pc /= "shutdown"

\* run_modem_service, one pass up to the call of listen_for_sms_with_event
\* (main.py 30-40): no port -> sleep 10 and retry; an exception -> sleep 5 and
\* retry; a port -> listen_for_sms starts with error_count 0
Discover ==
    /\ pc = "discover"
    /\ \E f \in find_modem_port(modem_port) :
          /\ pc' = IF f.raised THEN service_except("Exception")
                   ELSE IF f.port = 0 THEN "discover_wait" ELSE "connect"
          /\ port' = f.port
          /\ last_op' = IF f.raised THEN "discover_raised"
                        ELSE IF f.port = 0 THEN "discover_none" ELSE "discover_found"
    /\ error_count' = 0
    /\ UNCHANGED <<pvars, fvars, sms_threads, launch, ser_open, wait_time, SMS_MODE, flag, negotiated,
                   modem_port, text_ok, sup_pc, bot_pc, stop_signal, init_run, iter_io>>

\* the sleep of main.py 35 or 40 is over: back to the top of run_modem_service
ServiceRetry ==
    /\ pc \in {"discover_wait", "service_error_wait"}
    /\ pc' = "discover"
    /\ last_op' = "service_retry"
    /\ UNCHANGED <<pvars, fvars, sms_threads, launch, port, ser_open, error_count, wait_time, SMS_MODE, flag,
                   negotiated, modem_port, text_ok, sup_pc, bot_pc, stop_signal,
                   init_run, iter_io>>

\* one pass of the outer loop of listen_for_sms up to the polling loop
\* (modem.py 1323-1342) with its handler (1399-1404): open the port, run
\* init_modem, write the flag, select SIM storage once more (1339, the reply is
\* not looked at); an exception anywhere closes the port (the with block),
\* counts the error and computes the wait
Connect ==
    /\ pc = "connect"
    /\ \E opened \in (IF modem_port = port THEN {TRUE} ELSE BOOLEAN),
          flag_written \in BOOLEAN,
          cpms \in StorageReplies(modem_port = port) :
       \E r \in init_modem(preferred_mode_of_service, modem_port = port, text_ok) :
          LET ok == opened /\ r.result = "ok" /\ flag_written
              landing == IF ok THEN "ready" ELSE connection_except("Exception")
          IN  /\ ~ok => error_count < MaxErrors
              /\ pc' = landing
              /\ init_run' = IF opened
                              THEN [r EXCEPT !.wrote_flag = ok,
                                             !.storage = IF ok /\ cpms = "OK" THEN "SM" ELSE @]
                              ELSE NoInitRun
              /\ last_op' = IF ~opened THEN "open_raised"
                            ELSE IF r.result /= "ok" THEN "init_raised"
                            ELSE IF ~flag_written THEN "flag_write_raised"
                            ELSE "connected"
              /\ SMS_MODE' = IF opened /\ r.result = "ok" THEN r.sms_mode ELSE SMS_MODE
              /\ negotiated' = (negotiated \/ (opened /\ r.result = "ok"))
              /\ flag' = (flag \/ ok)
              /\ ser_open' = (landing = "ready")
              /\ error_count' = IF ok THEN 0
                                ELSE IF landing = "reconnect_wait" THEN error_count + 1
                                ELSE error_count
              /\ wait_time' = IF landing = "reconnect_wait"
                              THEN reconnect_wait_time(error_count + 1) ELSE wait_time
    /\ UNCHANGED <<pvars, fvars, sms_threads, launch, port, modem_port, text_ok, sup_pc, bot_pc, stop_signal,
                   iter_io>>

\* the sleep of modem.py 1404 is over: the outer loop of listen_for_sms goes
\* round (modem.py 1323)
Reconnect ==
    /\ pc = "reconnect_wait"
    /\ pc' = "connect"
    /\ last_op' = "reconnect"
    /\ UNCHANGED <<pvars, fvars, sms_threads, launch, port, ser_open, error_count, wait_time, SMS_MODE, flag,
                   negotiated, modem_port, text_ok, sup_pc, bot_pc, stop_signal,
                   init_run, iter_io>>

\* what the serial line can do during one polling iteration: work; stay
\* silent; raise on write (caught inside send_at_command, modem.py 451-453, and
\* delete_sms, 469-471); raise on ser.in_waiting because the channel is closed
\* (modem.py 1386, caught at 1395); or the message handling raises (1395)
IterationOutcomes(up) ==
    IF up THEN {"ok", "handler_raised"}
    ELSE {"silent", "write_raised", "channel_closed"}

\* one iteration of the polling loop (modem.py 1344-1397); the message
\* handling it does is the pipeline specified above and touches none of the
\* service's variables
PollingIteration ==
    /\ pc = "ready"
    /\ \E io \in IterationOutcomes(modem_port = port) :
          /\ iter_io' = io
          /\ pc' = IF io \in {"channel_closed", "handler_raised"}
                   THEN polling_except("Exception") ELSE "ready"
          /\ ser_open' = (pc' = "ready")
    /\ last_op' = "iteration"
    /\ UNCHANGED <<pvars, fvars, sms_threads, launch, port, error_count, wait_time, SMS_MODE, flag, negotiated,
                   modem_port, text_ok, sup_pc, bot_pc, stop_signal, init_run>>

\* the modem is plugged in, unplugged, moved to another port, stops answering
ModemChange ==
    /\ \E p \in ({0} \cup Ports) \ {modem_port} : modem_port' = p
    /\ last_op' = "modem_change"
    /\ UNCHANGED <<pvars, fvars, sms_threads, launch, pc, port, ser_open, error_count, wait_time, SMS_MODE,
                   flag, negotiated, text_ok, sup_pc, bot_pc, stop_signal, init_run,
                   iter_io>>

\* Ctrl+C.  Under "python main.py sms" KeyboardInterrupt is raised in the
\* service itself: no "except Exception" catches it, the with block closes the
\* port, the process ends; raised while find_modem_port probes a port it is
\* swallowed by the bare except of modem.py 435.  Under the supervisor it is
\* raised in the main thread, which exits (main.py 134-136), and the daemon
\* threads end with the process.
StopSignal ==
    /\ Running
    /\ ~stop_signal
    /\ stop_signal' = TRUE
    /\ \E swallowed \in (IF launch /= "supervisor" /\ pc = "discover" /\ modem_port /= 0
                         THEN BOOLEAN ELSE {FALSE}) :
          /\ pc' = IF swallowed THEN pc
                   ELSE IF launch = "supervisor" THEN "shutdown"
                   ELSE polling_except("KeyboardInterrupt")
          /\ last_op' = IF swallowed THEN "stop_swallowed" ELSE "stop"
    /\ ser_open' = (ser_open /\ pc' /= "shutdown")
    /\ sup_pc' = IF launch = "supervisor" THEN "exit" ELSE sup_pc
    /\ bot_pc' = IF launch = "supervisor" THEN "ended" ELSE bot_pc
    /\ sms_threads' = IF pc' = "shutdown" THEN 0 ELSE sms_threads
    /\ UNCHANGED <<pvars, fvars, launch, port, error_count, wait_time, SMS_MODE, flag, negotiated,
                   modem_port, text_ok, init_run, iter_io>>

\* supervisor_mode waiting for the service (main.py 106-113, 70-86): the flag
\* is there -> start the Telegram thread; the timeout has passed -> sys.exit(1),
\* which ends the process and the daemon thread of the service with it
SupervisorWait ==
    /\ sup_pc = "wait"
    /\ \E timed_out \in BOOLEAN :
          IF flag
          THEN /\ sup_pc' = "monitor"
               /\ bot_pc' = "wait_flag"
               /\ last_op' = "supervisor_ready"
               /\ UNCHANGED <<pc, ser_open, sms_threads>>
          ELSE IF timed_out
          THEN /\ sup_pc' = "exit"
               /\ bot_pc' = "ended"
               /\ pc' = "shutdown"
               /\ ser_open' = FALSE
               /\ sms_threads' = 0
               /\ last_op' = "supervisor_timeout"
          ELSE /\ last_op' = "supervisor_waiting"
               /\ UNCHANGED <<sup_pc, bot_pc, pc, ser_open, sms_threads>>
    /\ UNCHANGED <<pvars, fvars, launch, port, error_count, wait_time, SMS_MODE, flag, negotiated,
                   modem_port, text_ok, stop_signal, init_run, iter_io>>

\* run_telegram_service (main.py 42-57): wait for the flag, without limit, then
\* call run_bot
TelegramWait ==
    /\ bot_pc = "wait_flag"
    /\ flag
    /\ bot_pc' = "check"
    /\ last_op' = "telegram_ready"
    /\ UNCHANGED <<pvars, fvars, sms_threads, launch, pc, port, ser_open, error_count, wait_time, SMS_MODE,
                   flag, negotiated, modem_port, text_ok, sup_pc, stop_signal, init_run,
                   iter_io>>

\* async_run_bot (telegram_bot.py 424-434): check_sms_ready up to 30 times two
\* seconds apart; after that it goes on all the same and starts the message
\* processor
BotStart ==
    /\ bot_pc = "check"
    /\ \E attempts_used_up \in BOOLEAN :
          /\ flag \/ attempts_used_up
          /\ bot_pc' = "working"
          /\ last_op' = IF flag THEN "bot_saw_flag" ELSE "bot_gave_up_waiting"
    /\ UNCHANGED <<pvars, fvars, sms_threads, launch, pc, port, ser_open, error_count, wait_time, SMS_MODE,
                   flag, negotiated, modem_port, text_ok, sup_pc, stop_signal, init_run,
                   iter_io>>

\* "if not sms_thread.is_alive()" (main.py 125)
RestartAlways(alive) == TRUE
NeedsRestart(alive) == ~alive

\* one round of the supervisor's monitoring loop (main.py 124-133): a thread
\* that is no longer alive is replaced by a new one; the thread of the service
\* ends only with the process, run_modem_service catching every Exception
SupervisorMonitor ==
    /\ sup_pc = "monitor"
    /\ sms_threads' = IF NeedsRestart(sms_threads > 0) /\ sms_threads < 2
                       THEN sms_threads + 1 ELSE sms_threads
    /\ last_op' = "supervisor_monitor"
    /\ UNCHANGED <<pvars, fvars, launch, pc, port, ser_open, error_count, wait_time, SMS_MODE,
                   flag, negotiated, modem_port, text_ok, sup_pc, bot_pc, stop_signal,
                   init_run, iter_io>>

NextService ==
    \/ Discover
    \/ ServiceRetry
    \/ Connect
    \/ Reconnect
    \/ PollingIteration
    \/ ModemChange
    \/ StopSignal
    \/ SupervisorWait
    \/ SupervisorMonitor
    \/ TelegramWait
    \/ BotStart

SpecService == InitService /\ [][NextService]_vars

\* the service's own steps are taken when they can be: it is a running thread
ServiceStep == Discover \/ ServiceRetry \/ Connect \/ Reconnect \/ PollingIteration
SpecServiceFair == SpecService /\ WF_vars(ServiceStep)


(***************************************************************************)
(* The service's properties                                                *)
(***************************************************************************)
\* the values of last_op that Connect leaves
ConnectOps == {"open_raised", "init_raised", "flag_write_raised", "connected"}
\* the serial failures of a polling iteration
SerialFailures == {"write_raised", "channel_closed"}

\* C11: when a serial write raises or the channel is closed during a polling
\* iteration in Ready, the loop leaves Ready and enters Reconnecting.
C11_SerialFailureEscalates ==
    (last_op = "iteration" /\ iter_io \in SerialFailures) => pc = "reconnect_wait"

\* C12: no exception raised inside one iteration of the loop (serial open,
\* init_modem, writing the readiness flag, serial I/O and message handling
\* while polling) ends the service: right after it the service is running,
\* waiting to reconnect or back in the polling loop.
C12_NoExceptionEndsService ==
    /\ last_op \in {"open_raised", "init_raised", "flag_write_raised"}
          => (Running /\ pc = "reconnect_wait")
    /\ (last_op = "iteration" /\ iter_io \in SerialFailures \cup {"handler_raised"})
          => (Running /\ pc = "ready")
C12_Witness ==
    /\ last_op = "flag_write_raised"
    /\ init_run.result = "ok"
    /\ pc = "reconnect_wait"

\* C13: the service never gives up discovery: if no stop signal is given and
\* from some time on a modem answers, the loop reaches Initializing.
C13_DiscoveryNeverGivesUp ==
    ([]~stop_signal /\ <>[](modem_port /= 0)) => <>(pc = "connect")

\* C14: from Reconnecting the loop goes to Discovering (or ends), never
\* straight to a new initialisation on the port found before.
C14_ReconnectGoesThroughDiscovery ==
    [][pc = "reconnect_wait" => pc' \in {"reconnect_wait", "discover", "shutdown"}]_vars

\* C15: the wait before the n-th consecutive reconnect attempt never exceeds
\* the maximum delay and, below the maximum, grows exponentially with n: each
\* wait is to the one before it as that one is to the one before.
C15_ExponentialCappedBackoff ==
    pc = "reconnect_wait" =>
       /\ wait_time <= 30
       /\ (error_count >= 3 /\ wait_time < 30) =>
             wait_time * reconnect_wait_time(error_count - 2)
               = reconnect_wait_time(error_count - 1) * reconnect_wait_time(error_count - 1)

\* C16: the loop does not stay in Ready for ever on a modem that no longer
\* answers: the periodic AT probe fails and moves it to Reconnecting.
C16_ProbeFailureLeavesReady ==
    []<>(pc /= "ready" \/ modem_port /= 0)

\* C17: the loop has ended only after an explicit stop signal, and then the
\* serial transport is released.
C17_ShutdownOnlyByStopSignal ==
    pc = "shutdown" => (stop_signal /\ ~ser_open)

C19_FallbackToPdu ==
    (last_op \in ConnectOps /\ init_run.final = "0")
    => (init_run.sms_mode = "PDU" /\ init_run.result = "ok")

\* C20: the Telegram side does its work only when init_modem has succeeded at
\* least once and the readiness flag is there to be seen.
C20_BotStartsAfterReadiness ==
    bot_pc = "working" => (negotiated /\ flag)


\* C21: at any time at most one execution context issues commands on the
\* serial transport: at most one thread running the modem service is alive,
\* and the port is held open only while such a thread is.
C21_SingleTransportOwner ==
    /\ sms_threads <= 1
    /\ ser_open => sms_threads = 1
C21_Witness ==
    /\ last_op = "supervisor_monitor"
    /\ sup_pc = "monitor"
    /\ bot_pc = "working"
    /\ pc = "ready"
    /\ ser_open
    /\ sms_threads = 1

\* C30: a session that has finished initialisation has an accepted storage
\* selection: SIM storage, or device-internal memory when the modem rejected
\* SIM storage.
C30_StorageSelected ==
    (last_op = "connected") => init_run.storage \in {"SM", "ME"}


(***************************************************************************)
(* Single functions, each called on its own with inputs from small sets    *)
(***************************************************************************)
\* what a modem may send back: "\r\nOK\r\n", "\r\nERROR\r\n",
\* "\r\n+CPMS: 1\r\n\r\nOK\r\n", or nothing
ReplyOk == <<13, 10, 79, 75, 13, 10>>
ReplyError == <<13, 10, 69, 82, 82, 79, 82, 13, 10>>
ReplyCpms == <<13, 10, 43, 67, 80, 77, 83, 58, 32, 49, 13, 10, 13, 10, 79, 75, 13, 10>>
SerialReplies == {<<>>, ReplyOk, ReplyError, ReplyCpms}
\* what pyserial raises when the port is gone
SerialExceptions == {"SerialException", "OSError"}

\* characters of a reply in the input buffer when the wait ends
MaxArrived == 4

\* the serial line during one send_at_command: reset_input_buffer, write or
\* read raises exc, or by the end of the wait the first `arrived` characters
\* of the reply are in the input buffer
SerialLines ==
    {[exc |-> e, reply |-> r, arrived |-> n] :
        e \in {"none"} \cup SerialExceptions, r \in SerialReplies,
        n \in 0..MaxArrived} \cup
    {[exc |-> "none", reply |-> r, arrived |-> Len(r)] : r \in SerialReplies}

\* a read that drops what is in the input buffer
ReadsNothing(line) == <<>>
\* "if ser.in_waiting: response = ser.read(ser.in_waiting).decode(...)"
\* (modem.py 448-450)
in_waiting_read(line) ==
    SubSeq(line.reply, 1, IF line.arrived < Len(line.reply) THEN line.arrived
                          ELSE Len(line.reply))

\* send_at_command (modem.py 441-455): the stripped text read after the wait;
\* "except Exception" returns the empty string
send_at_command(line) ==
    IF line.exc = "none"
    THEN [raised |-> FALSE, text |-> Strip(in_waiting_read(line))]
    ELSE IF IsException(line.exc)
    THEN [raised |-> FALSE, text |-> <<>>]
    ELSE [raised |-> TRUE, text |-> <<>>]

SendAtCommandCall ==
    /\ \E line \in SerialLines :
          call' = [fn |-> "send_at_command", arg |-> line, out |-> send_at_command(line)]
    /\ last_op' = "send_at_command"
    /\ UNCHANGED <<pvars, svars, pending_multipart_messages, clock, evars>>

\* s contains "OK"
HasOk(s) == \E i \in 1..(Len(s) - 1) : s[i] = 79 /\ s[i + 1] = 75

\* C23: send_at_command never raises, whatever the line did; when the line
\* raised nothing it returns the text that had arrived by the end of the wait,
\* stripped, with or without an OK in it.
C23_SendReturnsTextSoFar ==
    call.fn = "send_at_command" =>
        /\ ~call.out.raised
        /\ call.arg.exc = "none" =>
              call.out.text = Strip(SubSeq(call.arg.reply, 1,
                                           SetMin({call.arg.arrived, Len(call.arg.reply)})))
C23_Witness ==
    /\ call.fn = "send_at_command"
    /\ call.arg.exc = "none"
    /\ call.arg.reply = ReplyError
    /\ call.arg.arrived = 4
    /\ ~HasOk(call.out.text)
    /\ call.out = [raised |-> FALSE, text |-> <<69, 82>>]


\* n in decimal, zero-padded to w digits ("{n:0wd}")
RECURSIVE Dec(_, _)
Dec(n, w) == IF w = 0 THEN <<>> ELSE Dec(n \div 10, w - 1) \o <<48 + (n % 10)>>

\* a two-digit field as a semi-octet pair: units digit first
SemiOctet(n) == <<48 + (n % 10), 48 + (n \div 10)>>
\* the 7-byte service-centre timestamp of a PDU: YY MM DD hh mm ss TZ
Scts(f) ==
    SemiOctet(f[1]) \o SemiOctet(f[2]) \o SemiOctet(f[3]) \o SemiOctet(f[4]) \o
    SemiOctet(f[5]) \o SemiOctet(f[6]) \o SemiOctet(0)
\* valid calendar fields; the year/month/day/hour values cover both tens digit 0
\* and tens digit above 0
SctsFields ==
    {<<yy, mm, dd, hh, mi, ss>> :
        yy \in {0, 9, 12, 24}, mm \in {1, 9, 10, 12}, dd \in {1, 9, 13, 31},
        hh \in {0, 9, 18, 23}, mi \in {0, 59}, ss \in {0, 59}}

\* "int(timestamp_hex[1] + timestamp_hex[0], 16)" (modem.py 170-175)
SwappedPair(hi, lo) == HexInt(<<hi, lo>>)

\* decode_pdu_timestamp (modem.py 163-183); now: datetime.now() was returned
decode_pdu_timestamp(timestamp_hex) ==
    IF Len(timestamp_hex) < 14 \/ ~AllHex(SubSeq(timestamp_hex, 1, 12))
    THEN [now |-> TRUE, text |-> <<>>]
    ELSE LET year   == SwappedPair(timestamp_hex[2], timestamp_hex[1]) + 2000
             month  == SwappedPair(timestamp_hex[4], timestamp_hex[3])
             day    == SwappedPair(timestamp_hex[6], timestamp_hex[5])
             hour   == SwappedPair(timestamp_hex[8], timestamp_hex[7])
             minute == SwappedPair(timestamp_hex[10], timestamp_hex[9])
             second == SwappedPair(timestamp_hex[12], timestamp_hex[11])
         IN  IF ~(1 <= month /\ month <= 12) \/ ~(1 <= day /\ day <= 31)
                \/ ~(0 <= hour /\ hour <= 23) \/ ~(0 <= minute /\ minute <= 59)
                \/ ~(0 <= second /\ second <= 59)
             THEN [now |-> TRUE, text |-> <<>>]
             ELSE [now |-> FALSE,
                   text |-> Dec(year, 4) \o <<45>> \o Dec(month, 2) \o <<45>> \o
                            Dec(day, 2) \o <<32>> \o Dec(hour, 2) \o <<58>> \o
                            Dec(minute, 2) \o <<58>> \o Dec(second, 2)]

DecodePduTimestampCall ==
    /\ \E f \in SctsFields :
          call' = [fn |-> "decode_pdu_timestamp", arg |-> [fields |-> f, hex |-> Scts(f)],
                   out |-> decode_pdu_timestamp(Scts(f))]
    /\ last_op' = "decode_pdu_timestamp"
    /\ UNCHANGED <<pvars, svars, pending_multipart_messages, clock, evars>>

\* C25: for every valid semi-octet timestamp decode_pdu_timestamp returns
\* YYYY-MM-DD HH:MM:SS where each field is the swapped pair read as two decimal
\* digits and the year is 2000 + YY.
C25_TimestampFieldsDecimal ==
    call.fn = "decode_pdu_timestamp" =>
        LET f == call.arg.fields IN
        call.out = [now |-> FALSE,
                    text |-> Dec(2000 + f[1], 4) \o <<45>> \o Dec(f[2], 2) \o <<45>> \o
                             Dec(f[3], 2) \o <<32>> \o Dec(f[4], 2) \o <<58>> \o
                             Dec(f[5], 2) \o <<58>> \o Dec(f[6], 2)]

\* decode_message_content (modem.py 669-714)
decode_message_content(content) ==
    IF ~AllHex(content) THEN content
    ELSE LET chars   == [i \in 1..(Len(content) \div 4) |->
                            HexInt(SubSeq(content, 4 * i - 3, 4 * i))]
             decoded == Strip(SelectSeq(chars, LAMBDA char_code : char_code /= 0))
             utf8    == IF FromHexRaises(content) THEN <<>>
                        ELSE Strip(DecodeUtf8(FromHex(content)))
         IN  IF Len(content) % 4 = 0 /\ decoded /= <<>> THEN decoded
             ELSE IF utf8 /= <<>> THEN utf8
             ELSE content

\* S.encode('utf-16be'): the UTF-16 code units of a string of scalar values
RECURSIVE Utf16Encode(_)
Utf16Encode(t) ==
    IF t = <<>> THEN <<>>
    ELSE LET c == Head(t) IN
         (IF c < 65536 THEN <<c>>
          ELSE <<55296 + ((c - 65536) \div 1024), 56320 + ((c - 65536) % 1024)>>)
         \o Utf16Encode(Tail(t))
\* S.encode('utf-16be').hex().upper()
Utf16BEHex(t) == Ucs2Hex(Utf16Encode(t))

\* longest string encoded and decoded
MaxContentLen == 3
\* space, "A", Arabic meem, U+1F600
ContentAlphabet == {32, 65, 1605, 128512}
RECURSIVE StringsUpTo(_)
StringsUpTo(n) ==
    IF n = 0 THEN {<<>>}
    ELSE LET shorter == StringsUpTo(n - 1) IN
         shorter \cup {Append(t, c) : t \in {x \in shorter : Len(x) = n - 1},
                                      c \in ContentAlphabet}
ContentStrings == StringsUpTo(MaxContentLen)

RECURSIVE CollapseSpaces(_)
CollapseSpaces(t) ==
    IF Len(t) < 2 THEN t
    ELSE IF t[1] = 32 /\ t[2] = 32 THEN CollapseSpaces(Tail(t))
    ELSE <<t[1]>> \o CollapseSpaces(Tail(t))
\* the normalization of a decoded text, _clean_text (advanced_decoder.py
\* 393-407): control characters removed, ' '.join(text.split()), the Arabic
\* letter variants unified (none of them is in ContentAlphabet), stripped
IsControlChar(c) == c \in 0..8 \/ c \in {11, 12, 127} \/ c \in 14..31
Normalize(t) ==
    LET cleaned == SelectSeq(t, LAMBDA c : ~IsControlChar(c))
    IN  Strip(CollapseSpaces([i \in 1..Len(cleaned) |->
                                 IF IsSpace(cleaned[i]) THEN 32 ELSE cleaned[i]]))

\* decode_message_content on the UTF-16BE hex of a string
DecodeMessageContentCall ==
    /\ \E S \in ContentStrings :
          call' = [fn |-> "decode_message_content", arg |-> [S |-> S, hex |-> Utf16BEHex(S)],
                   out |-> decode_message_content(Utf16BEHex(S))]
    /\ last_op' = "decode_message_content"
    /\ UNCHANGED <<pvars, svars, pending_multipart_messages, clock, evars>>

\* the decode of a +CMGL body (modem.py 991-1006) on the UTF-16BE hex of a string
TextModeContentCall ==
    /\ \E S \in ContentStrings :
          call' = [fn |-> "text_mode_content", arg |-> [S |-> S, hex |-> Utf16BEHex(S)],
                   out |-> text_mode_content(Utf16BEHex(S))]
    /\ last_op' = "text_mode_content"
    /\ UNCHANGED <<pvars, svars, pending_multipart_messages, clock, evars>>

\* C24: decoding the UTF-16BE hex of any string S, with decode_message_content
\* or with the decode of a +CMGL body, gives S back up to normalization.
C24_Utf16HexRoundTrip ==
    call.fn \in {"decode_message_content", "text_mode_content"} =>
        Normalize(call.out) = Normalize(call.arg.S)

\* sender fields: "00414200", "00410042", "4142", "41424344", "0041",
\* "D83DDE00", "0000", "00200020", "41 42", "+213555000111", "+213", "Ooredoo"
SenderInputs ==
    {<<48, 48, 52, 49, 52, 50, 48, 48>>, <<48, 48, 52, 49, 48, 48, 52, 50>>,
     <<52, 49, 52, 50>>, <<52, 49, 52, 50, 52, 51, 52, 52>>, <<48, 48, 52, 49>>,
     <<68, 56, 51, 68, 68, 69, 48, 48>>, <<48, 48, 48, 48>>,
     <<48, 48, 50, 48, 48, 48, 50, 48>>, <<52, 49, 32, 52, 50>>,
     PhonePlain, PhoneShort, NameSender}

\* decode_sender on a sender field
DecodeSenderCall ==
    /\ \E sender \in SenderInputs :
          call' = [fn |-> "decode_sender", arg |-> sender, out |-> decode_sender(sender)]
    /\ last_op' = "decode_sender"
    /\ UNCHANGED <<pvars, svars, pending_multipart_messages, clock, evars>>

\* the candidates decode_sender has for the sender of the last call
CallCandidates ==
    LET clean_sender == Strip(Without(Without(call.arg, 43), 32)) IN
    IF AllHex(clean_sender) /\ Len(clean_sender) % 2 = 0
    THEN SenderCandidates(clean_sender) ELSE {}

\* C31: among the candidates of decode_sender that tie in score (printable,
\* same length) the UTF-16BE one is returned before the UTF-8 one (and that
\* before the UTF-16LE one), and a sender with any candidate is never returned
\* as the plain field.
C31_TiesFavourUcs2 ==
    (call.fn = "decode_sender" /\ CallCandidates /= {}) =>
        \E r \in CallCandidates :
            /\ call.out = Strip(Utf8Normalize(r.text))
            /\ \A q \in CallCandidates :
                  /\ Len(q.text) <= Len(r.text)
                  /\ Len(q.text) = Len(r.text) => q.prio <= r.prio
\* "00414200": the UTF-16BE reading "A" U+4200 and the UTF-8 reading "AB" tie
C31_Witness ==
    /\ call.fn = "decode_sender"
    /\ call.arg = <<48, 48, 52, 49, 52, 50, 48, 48>>
    /\ [prio |-> 3, text |-> <<65, 16896>>] \in CallCandidates
    /\ [prio |-> 2, text |-> <<65, 66>>] \in CallCandidates
    /\ call.out = <<65, 16896>>

\* C32: a decode that succeeds (returns a non-empty text, which is what the
\* caller tests) on a hex field never returns that hex field itself: the
\* sender from decode_sender and the content from decode_message_content or
\* from the decode of a +CMGL body are decoded text.
C32_SuccessIsNeverRawHex ==
    /\ (call.fn = "decode_sender" /\ AllHex(call.arg) /\ call.out /= <<>>)
          => call.out /= call.arg
    /\ (call.fn \in {"decode_message_content", "text_mode_content"} /\ call.out /= <<>>)
          => call.out /= call.arg.hex

\* PDUs whose positional parse fails: "0011" and "0001000B91" (shorter than 12),
\* "0791123456789012" (ends after the SMSC field), "00040C912135" (sender
\* address cut), "ZZ0000000000" (non-hex SMSC length); and a complete PDU
MalformedPdus ==
    {<<48, 48, 49, 49>>, <<48, 48, 48, 49, 48, 48, 48, 66, 57, 49>>,
     <<48, 55, 57, 49, 49, 50, 51, 52, 53, 54, 55, 56, 57, 48, 49, 50>>,
     <<48, 48, 48, 52, 48, 67, 57, 49, 50, 49, 51, 53>>,
     <<90, 90, 48, 48, 48, 48, 48, 48, 48, 48, 48, 48>>}
PduInputs == MalformedPdus \cup {ConcatPdu(7, 1)}

\* decode_pdu_message on a PDU
DecodePduMessageCall ==
    /\ \E pdu_hex \in PduInputs :
          call' = [fn |-> "decode_pdu_message", arg |-> pdu_hex,
                   out |-> decode_pdu_message(pdu_hex)]
    /\ last_op' = "decode_pdu_message"
    /\ UNCHANGED <<pvars, svars, pending_multipart_messages, clock, evars>>

\* C33: a PDU whose positional parse fails still decodes to a result with a
\* non-empty content, never to the empty result.
C33_MalformedPduBestEffort ==
    (call.fn = "decode_pdu_message" /\ call.arg \in MalformedPdus)
        => (call.out.ok /\ call.out.content /= <<>>)

\* delete_sms_with_retry for one index of a device with all slots in use; the
\* call's result and the AT+CMGD attempts it made are kept
DeleteWithRetryCall ==
    /\ \E index \in Index, m \in TextMsgs :
          \E r \in delete_sms_with_retry(
                       [store |-> store, device |-> [i \in Index |-> m], trace |-> <<>>],
                       index) :
             call' = [fn |-> "delete_sms_with_retry", arg |-> index,
                      out |-> [ret |-> r.ret, attempts |-> r.st.trace,
                               device |-> r.st.device]]
    /\ last_op' = "delete_sms_with_retry"
    /\ UNCHANGED <<pvars, svars, pending_multipart_messages, clock, evars>>

\* C34: delete_sms_with_retry makes at most three AT+CMGD attempts, all for
\* its index; it returns True exactly when an attempt was answered OK, that
\* attempt being the last one made, and False after three failed attempts.
C34_DeleteRetryBounded ==
    call.fn = "delete_sms_with_retry" =>
        LET a == call.out.attempts IN
        /\ Len(a) >= 1 /\ Len(a) <= 3
        /\ \A k \in 1..Len(a) : a[k].op = "delete" /\ a[k].idx = call.arg
        /\ \A k \in 1..(Len(a) - 1) : a[k].res = "fail"
        /\ call.out.ret <=> a[Len(a)].res = "ok"
        /\ ~call.out.ret => Len(a) = 3
\* the second attempt is answered OK and no third is made
C34_Witness ==
    /\ call.fn = "delete_sms_with_retry"
    /\ call.out.ret
    /\ Len(call.out.attempts) = 2
    /\ call.out.attempts[1].res = "fail"
    /\ call.out.attempts[2].res = "ok"
    /\ call.out.device[call.arg] = NoMsg

NextFunctions ==
    \/ SendAtCommandCall
    \/ DecodePduTimestampCall
    \/ DecodeMessageContentCall
    \/ TextModeContentCall
    \/ DecodeSenderCall
    \/ DecodePduMessageCall
    \/ DeleteWithRetryCall

SpecFunctions == InitStore /\ [][NextFunctions]_vars


\* C26: a message handled by the +CMTI notification path and by the +CMGL
\* poll path goes through the same steps with the same values: when two
\* consecutive handler runs both reach the store call for an index, the two
\* calls carry the same sender and content and end alike.  (A slot is not
\* refilled between the two runs: an arrival takes a free slot.)
C26_NotificationPathSameAsPoll ==
    \A j \in 1..Len(prev_trace), k \in 1..Len(trace) :
        (/\ prev_trace[j].op = "store" /\ trace[k].op = "store"
         /\ prev_trace[j].idx = trace[k].idx
         /\ device[trace[k].idx] /= NoMsg)
            => /\ prev_trace[j].sender = trace[k].sender
               /\ prev_trace[j].content = trace[k].content
               /\ prev_trace[j].res = trace[k].res


(***************************************************************************)
(* check_and_combine_multipart_message (modem.py 1240-1293) called on its  *)
(* own while time passes.  pending_multipart_messages is the set of the    *)
(* dict's entries, each with its key.                                      *)
(***************************************************************************)
\* calls in one run, and the last minute of the run
MaxCombineCalls == 3
MaxClock == 15
\* minutes between two looks at the clock
ClockStep == 5

\* "23/01/15,10:59:50+00" and "23/01/15,11:00:05+00", as the +CMGL header has them
DateTime1059 == <<50, 51, 47, 48, 49, 47, 49, 53, 44, 49, 48, 58, 53, 57, 58, 53, 48, 43, 48, 48>>
DateTime1100 == <<50, 51, 47, 48, 49, 47, 49, 53, 44, 49, 49, 58, 48, 48, 58, 48, 53, 43, 48, 48>>

\* f"{sender}_{date_time[:11]}" (modem.py 1247)
MsgKey(sender, date_time) == sender \o <<95>> \o Slice(date_time, 0, 11)

\* ' '.join(parts)
RECURSIVE JoinParts(_)
JoinParts(parts) ==
    IF parts = <<>> THEN <<>>
    ELSE IF Len(parts) = 1 THEN parts[1]
    ELSE parts[1] \o <<32>> \o JoinParts(Tail(parts))

\* a purge that removes nothing
KeepsStale(pending, now) == pending
\* the entries left by the purge of modem.py 1250-1257
PurgeStale(pending, now) == {e \in pending : ~(now - e.last_update > 10)}

check_and_combine_multipart_message(pending, now, sender, content, date_time) ==
    LET msg_key == MsgKey(sender, date_time)
        kept    == PurgeStale(pending, now)
        known   == \E e \in kept : e.key = msg_key
    IN
    IF is_message_fragment(content) \/ known
    THEN IF ~known
         THEN [ret |-> content,
               pending |-> kept \cup {[key |-> msg_key, parts |-> <<content>>,
                                       last_update |-> now, sender |-> sender]}]
         ELSE LET e        == CHOOSE e \in kept : e.key = msg_key
                  parts    == Append(e.parts, content)
                  combined == JoinParts(parts)
              IN  IF ~is_message_fragment(content) \/ Len(combined) > 500
                  THEN [ret |-> combined, pending |-> kept \ {e}]
                  ELSE [ret |-> combined,
                        pending |-> (kept \ {e}) \cup
                                    {[e EXCEPT !.parts = parts, !.last_update = now]}]
    ELSE [ret |-> content, pending |-> kept]

CombineCall ==
    /\ Len(trace) < MaxCombineCalls
    /\ \E sender \in {PhoneShort, NameSender}, content \in {TextArabic, TextSolde},
          date_time \in {DateTime1059, DateTime1100} :
          LET r == check_and_combine_multipart_message(pending_multipart_messages, clock,
                                                       sender, content, date_time)
          IN  /\ pending_multipart_messages' = r.pending
              /\ call' = [fn |-> "check_and_combine_multipart_message",
                          arg |-> [sender |-> sender, content |-> content,
                                   date_time |-> date_time, now |-> clock,
                                   pending |-> pending_multipart_messages],
                          out |-> r.ret]
              /\ trace' = Append(trace, Ev("combine", 0, sender, content, "call"))
    /\ last_op' = "combine"
    /\ UNCHANGED <<mode, arrivals, device, pending_cmti, store, processed_indices,
                   prev_trace, svars, clock, evars>>

\* cleanup_old_concatenated_messages (modem.py 1438-1452), run from the polling
\* loop (1355): it purges the dict concatenated_messages, which nothing fills,
\* and leaves pending_multipart_messages alone
CleanupPass ==
    /\ last_op /= "cleanup"
    /\ last_op' = "cleanup"
    /\ UNCHANGED <<pvars, svars, fvars>>

ClockTick ==
    /\ clock + ClockStep <= MaxClock
    /\ clock' = clock + ClockStep
    /\ last_op' = "tick"
    /\ UNCHANGED <<pvars, svars, call, pending_multipart_messages, evars>>

NextReassembler == CombineCall \/ CleanupPass \/ ClockTick

SpecReassembler == InitStore /\ [][NextReassembler]_vars

\* the entries of the dict before the last call that had gone without an
\* update for more than ten minutes
StaleBefore ==
    {e \in call.arg.pending : call.arg.now - e.last_update > 10}

C29_NonFragmentClosesSet ==
    (/\ call.fn = "check_and_combine_multipart_message"
     /\ ~is_message_fragment(call.arg.content))
        => \A e \in call.arg.pending \ StaleBefore :
              e.sender = call.arg.sender
                  => /\ call.out = JoinParts(Append(e.parts, call.arg.content))
                     /\ ~\E f \in pending_multipart_messages : f.key = e.key


(***************************************************************************)
(* AdvancedDecoder.decode_message (advanced_decoder.py 158-187): the       *)
(* method is wrapped in functools.lru_cache and keeps its own dict         *)
(* self.cache.  A message is a number; distinct messages have distinct     *)
(* cache keys.                                                             *)
(***************************************************************************)
\* decode_message calls in one run
MaxDecodeCalls == 3
\* @lru_cache(maxsize=1000)
lru_maxsize == 1000
\* "if len(self.cache) > 10000" ... "cache_items[-5000:]"
cache_limit == 10000
cache_keep == 5000

Range(seq) == {seq[i] : i \in 1..Len(seq)}
\* seq with k moved (or added) to the most recent end
Touch(seq, k) == SelectSeq(seq, LAMBDA x : x /= k) \o <<k>>
\* what lru_cache holds after a call for k: the least recent entry goes when
\* the cache is over maxsize
LruStore(lru, k) ==
    LET t == Touch(lru, k) IN IF Len(t) > lru_maxsize THEN Tail(t) ELSE t
\* the trim of self.cache (advanced_decoder.py 181-184)
TrimCache(items) ==
    IF Len(items) > cache_limit
    THEN SubSeq(items, Len(items) - cache_keep + 1, Len(items))
    ELSE items

\* the messages decoded so far, one call each: 1..n
Prefills == {0, cache_limit - 1, cache_limit}
InitCache ==
    /\ mode = "TEXT"
    /\ arrivals = <<>>
    /\ device = [i \in Index |-> NoMsg]
    /\ pending_cmti = <<>>
    /\ store = <<>>
    /\ processed_indices = {}
    /\ trace = <<>>
    /\ prev_trace = <<>>
    /\ last_op = "start"
    /\ SessionSteady
    /\ call = NoCall
    /\ pending_multipart_messages = {}
    /\ clock = 0
    /\ lost_cmti = {}
    /\ LockHeld
    /\ TelegramIdle
    /\ \E n \in Prefills :
          /\ cache = TrimCache([i \in 1..n |-> i])
          /\ recency = TrimCache([i \in 1..n |-> i])
          /\ decode_message_lru =
                 [i \in 1..(IF n < lru_maxsize THEN n ELSE lru_maxsize) |->
                     i + (IF n < lru_maxsize THEN 0 ELSE n - lru_maxsize)]

\* one call decode_message(raw_message): the oldest message, the second
\* oldest, the newest, or one never seen
DecodeMessageCall ==
    /\ Len(trace) < MaxDecodeCalls
    /\ \E raw_message \in {1, 2} \cup
                          (IF cache = <<>> THEN {} ELSE {cache[Len(cache)], cache[Len(cache)] + 1}) :
          \E in_lru   \in {raw_message \in Range(decode_message_lru)},
             in_cache \in {raw_message \in Range(cache)},
             stored   \in {TrimCache(Append(cache, raw_message))} :
          \E kept \in {Range(stored)} :
              /\ decode_message_lru' = LruStore(decode_message_lru, raw_message)
              /\ cache' = IF in_lru \/ in_cache THEN cache ELSE stored
              /\ recency' = IF in_lru \/ in_cache
                            THEN (IF in_cache THEN Touch(recency, raw_message) ELSE recency)
                            ELSE SelectSeq(Append(recency, raw_message),
                                           LAMBDA x : x \in kept)
              /\ call' = [fn |-> "decode_message",
                          arg |-> [raw_message |-> raw_message, cache |-> cache,
                                   recency |-> recency],
                          out |-> IF in_lru THEN "lru_hit"
                                  ELSE IF in_cache THEN "cache_hit" ELSE "decoded"]
              /\ trace' = Append(trace, Ev("decode_message", 0, <<>>, <<>>, "call"))
    /\ last_op' = "decode_message"
    /\ UNCHANGED <<mode, arrivals, device, pending_cmti, store, processed_indices,
                   prev_trace, svars, pending_multipart_messages, clock, xvars>>

NextCache == DecodeMessageCall

SpecCache == InitCache /\ [][NextCache]_vars

\* C35: after any decode_message call neither cache is over its capacity, and
\* the entries a call evicted from self.cache were the least recently asked
\* for ones.
C35_CacheBoundedLru ==
    call.fn = "decode_message" =>
        /\ Len(cache) <= cache_limit
        /\ Len(decode_message_lru) <= lru_maxsize
        /\ LET evicted == Range(call.arg.cache) \ Range(cache)
           IN  evicted = {call.arg.recency[i] : i \in 1..Cardinality(evicted)}


(***************************************************************************)
(* C36: an index is in processed_indices only when its message was handled *)
(* successfully: after a poll cycle or a notification run in which the     *)
(* decode or the store call for an index failed, and no store call for it  *)
(* succeeded, the index is not in processed_indices.                       *)
(***************************************************************************)
C36_ProcessedOnlyOnSuccess ==
    \A idx \in Index :
        (/\ last_op \in {"poll", "cmti"}
         /\ StoreFailed(trace, idx) \/ HasRes(trace, "decode", idx, "fail")
         /\ ~HasRes(trace, "store", idx, "created"))
            => idx \notin processed_indices


(***************************************************************************)
(* The pipeline with the polling loop of listen_for_sms running on         *)
(* (modem.py 1358-1383, a poll every poll_interval): weak fairness of the  *)
(* poll that the modem answers within the wait.  WF_vars(Poll(TRUE)) is    *)
(* written out as []<>~ENABLED <<Poll(TRUE)>>_vars \/ []<><<Poll(TRUE)>>_vars  *)
(* with the enabling condition given as the state predicate PollChanges.   *)
(***************************************************************************)
\* an answered poll would change the state
PollChanges ==
    LET job == [st |-> [store |-> store, device |-> device, trace |-> <<>>],
                processed |-> processed_indices]
    IN  \/ pending_cmti /= <<>>
        \/ prev_trace /= trace
        \/ last_op /= "poll"
        \/ \E j \in process_cmgl_response(job, device, mode) :
              \/ j.st.store /= store
              \/ j.st.device /= device
              \/ j.st.trace /= trace
              \/ j.processed /= processed_indices

SpecPollFair == Spec /\ ([]<>~PollChanges \/ []<><<Poll(TRUE)>>_vars)

\* a poll has listed the index and run the pipeline for it: the decode, and
\* the process_message call when the decode gave a sender and a content
ProcessedByPoll(idx) ==
    /\ last_op = "poll"
    /\ Has(trace, "listed", idx)
    /\ HasRes(trace, "decode", idx, "fail") \/ Has(trace, "process", idx)

\* C38: a message whose +CMTI line was discarded unread is eventually listed
\* by a +CMGL poll and processed by the pipeline.
C38_LostCmtiStillProcessed ==
    \A idx \in Index : (idx \in lost_cmti) ~> ProcessedByPoll(idx)

\* a poll lists and processes a message whose +CMTI line was discarded
C38_Witness ==
    \E idx \in Index : idx \in lost_cmti /\ ProcessedByPoll(idx)


(***************************************************************************)
(* The lock of main.py (main.py 16-26): at import time an instance tests   *)
(* os.path.exists('bot.lock'), exits when the file is there, and otherwise *)
(* creates it with open(..., 'w') and registers remove_lock with atexit.   *)
(***************************************************************************)
\* everything but the lock and the sms table at rest
RestIdle ==
    /\ mode = "TEXT"
    /\ arrivals = <<>>
    /\ device = [i \in Index |-> NoMsg]
    /\ pending_cmti = <<>>
    /\ store = <<>>
    /\ processed_indices = {}
    /\ trace = <<>>
    /\ prev_trace = <<>>
    /\ last_op = "start"
    /\ SessionSteady
    /\ call = NoCall
    /\ pending_multipart_messages = {}
    /\ clock = 0
    /\ cache = <<>>
    /\ decode_message_lru = <<>>
    /\ recency = <<>>
    /\ lost_cmti = {}

InitLock ==
    /\ RestIdle
    /\ TelegramIdle
    /\ lock_file = FALSE
    /\ instance = [p \in Instances |-> "off"]

LockStep(p, to, file) ==
    /\ instance' = [instance EXCEPT ![p] = to]
    /\ lock_file' = file
    /\ last_op' = "lock"
    /\ UNCHANGED <<pvars, svars, call, pending_multipart_messages, clock,
                   cache, decode_message_lru, recency, lost_cmti, tvars>>

\* python main.py is started
StartInstance(p) ==
    /\ instance[p] \in {"off", "refused"}
    /\ LockStep(p, "start", lock_file)

\* main.py 17-19: os.path.exists(LOCK_FILE), exit(1) when it does
LockCheck(p) ==
    /\ instance[p] = "start"
    /\ LockStep(p, IF lock_file THEN "refused" ELSE "checked", lock_file)

\* main.py 20-26: open(LOCK_FILE, 'w') creates or truncates the file; the
\* instance goes on past the lock
LockCreate(p) ==
    /\ instance[p] = "checked"
    /\ LockStep(p, "running", TRUE)

\* the instance ends: remove_lock removes the file when it is there
InstanceExit(p) ==
    /\ instance[p] = "running"
    /\ LockStep(p, "off", FALSE)

NextLock ==
    \E p \in Instances :
        StartInstance(p) \/ LockCheck(p) \/ LockCreate(p) \/ InstanceExit(p)

SpecLock == InitLock /\ [][NextLock]_vars

\* C39: at most one instance of main.py is past the bot.lock check at any
\* time, under every interleaving of the existence tests and the creations.
C39_AtMostOnePastLock ==
    Cardinality({p \in Instances : instance[p] = "running"}) <= 1


(***************************************************************************)
(* TelegramBot.process_unsent_messages (telegram_bot.py 120-204), each run *)
(* on its own connection in autocommit mode (isolation_level=None): the    *)
(* SELECT of the unsent rows, then BEGIN IMMEDIATE, the UPDATE that marks  *)
(* them and the commit, then one send per selected row.  Rows are taken in *)
(* the order of their ids; LIMIT 50 takes them all.                        *)
(***************************************************************************)
\* process_unsent_messages(self, retries: int = 10)
retries == 10

InitTelegram ==
    /\ RestIdle
    /\ LockHeld
    /\ is_sent_to_telegram \in [Rows -> {0, 1}]
    /\ run = [p \in Runs |-> NoRun]
    /\ delivered = [r \in Rows |-> 0]

RECURSIVE UnsentFrom(_)
\* the rows r, r+1, ... with is_sent_to_telegram = 0
UnsentFrom(r) ==
    IF r > MaxRows THEN <<>>
    ELSE (IF is_sent_to_telegram[r] = 0 THEN <<r>> ELSE <<>>) \o UnsentFrom(r + 1)

TelegramStep(p, to) ==
    /\ run' = [run EXCEPT ![p] = to]
    /\ last_op' = "telegram"
    /\ UNCHANGED <<pvars, svars, call, pending_multipart_messages, clock,
                   cache, decode_message_lru, recency, lost_cmti, lvars>>

\* safe_message_processor calls process_unsent_messages (telegram_bot.py 453)
RunStart(p) ==
    /\ run[p].pc = "idle"
    /\ TelegramStep(p, [pc |-> "attempt", messages |-> <<>>, attempt |-> 0])
    /\ UNCHANGED <<is_sent_to_telegram, delivered>>

\* the SELECT and fetchall (telegram_bot.py 132-142): return when no row is unsent
SelectUnsent(p) ==
    /\ run[p].pc = "attempt"
    /\ LET messages == UnsentFrom(1) IN
       TelegramStep(p, IF messages = <<>> THEN NoRun
                       ELSE [run[p] EXCEPT !.pc = "selected", !.messages = messages])
    /\ UNCHANGED <<is_sent_to_telegram, delivered>>

\* BEGIN IMMEDIATE, UPDATE ... SET is_sent_to_telegram = 1, commit
\* (telegram_bot.py 147-151)
MarkSelected(p) ==
    /\ run[p].pc = "selected"
    /\ is_sent_to_telegram' =
           [r \in Rows |-> IF \E k \in 1..Len(run[p].messages) : run[p].messages[k] = r
                           THEN 1 ELSE is_sent_to_telegram[r]]
    /\ TelegramStep(p, [run[p] EXCEPT !.pc = "sending"])
    /\ UNCHANGED delivered

\* BEGIN IMMEDIATE raises OperationalError, database is locked: the next
\* attempt after the backoff, or the end of the run after the last one
\* (telegram_bot.py 179-188)
MarkLocked(p) ==
    /\ run[p].pc = "selected"
    /\ TelegramStep(p, IF run[p].attempt < retries - 1
                       THEN [pc |-> "attempt", messages |-> <<>>,
                             attempt |-> run[p].attempt + 1]
                       ELSE NoRun)
    /\ UNCHANGED <<is_sent_to_telegram, delivered>>

\* one pass of the send loop (telegram_bot.py 155-172): the message goes out,
\* or send_message returns False or times out
SendNext(p) ==
    /\ run[p].pc = "sending"
    /\ run[p].messages /= <<>>
    /\ \E result \in BOOLEAN :
          delivered' = [delivered EXCEPT ![Head(run[p].messages)] = @ + (IF result THEN 1 ELSE 0)]
    /\ TelegramStep(p, [run[p] EXCEPT !.messages = Tail(@)])
    /\ UNCHANGED is_sent_to_telegram

\* the return after the send loop (telegram_bot.py 177)
RunReturn(p) ==
    /\ run[p].pc = "sending"
    /\ run[p].messages = <<>>
    /\ TelegramStep(p, NoRun)
    /\ UNCHANGED <<is_sent_to_telegram, delivered>>

NextTelegram ==
    \E p \in Runs :
        \/ RunStart(p)
        \/ SelectUnsent(p)
        \/ MarkSelected(p)
        \/ MarkLocked(p)
        \/ SendNext(p)
        \/ RunReturn(p)

SpecTelegram == InitTelegram /\ [][NextTelegram]_vars

\* C40: under any interleaving of the runs of process_unsent_messages no row
\* of the sms table is sent to Telegram more than once.
C40_RowSentAtMostOnce ==
    \A r \in Rows : delivered[r] <= 1

====
